---- MODULE Spec2Model ----
(***************************************************************************)
(* A model of the flashcard bot: the vocabulary store of db.py (class      *)
(* Database on one psycopg2 connection) and the message handlers of        *)
(* bot.py.                                                                 *)
(*                                                                         *)
(* Texts are sequences of one-character strings, so that str.strip,        *)
(* str.lower and str.split are computed character by character.  Russian   *)
(* texts are transliterated; the store treats them as opaque.              *)
(*                                                                         *)
(* The specifications share the variables:                                 *)
(*   SpecStore   the methods of Database called one at a time;             *)
(*   SpecWeight  long runs of answers to one card, for the weights;        *)
(*   Spec        the message handlers of bot.py, one message at a time;    *)
(*   SpecFault   /cards handled while the store fails;                     *)
(*   SpecOverlap two answers of one user handled on the two threads;       *)
(*   SpecConc    the methods of Database stepped statement by statement    *)
(*               on the threads that share the connection;                 *)
(*   SpecClosed  SpecConc with the connection closed under a call;         *)
(*   SpecDelete  SpecConc with delete_user_word beside the other calls;    *)
(*   SpecMode    the input mode set, set by the callback, and read;        *)
(*   SpecDown    the handlers with the connection found closed;            *)
(*   SpecAdd     add_user_word with texts that differ in letter case;      *)
(*   SpecChats   the handlers for one user in two chats;                   *)
(*   SpecLedger  the store with a ledger of the answers and deletions;     *)
(*   SpecSteps   the texts after /add_word and /delete_word on the two     *)
(*               threads.                                                  *)
(*                                                                         *)
(* Not modelled: the column user_word_progress.last_tested and the SERIAL  *)
(* id of user_word_progress (no statement reads them), logging, and the    *)
(* layout of the messages sent to the user.                                *)
(***************************************************************************)
EXTENDS Bags, FiniteSets, Integers, Sequences, TLC

(***************************************************************************)
(* Bounds of the model.                                                    *)
(***************************************************************************)
\* how many of the ten seed pairs of load_initial_words the model keeps
MaxSeed == 4
\* a run of the store makes at most this many calls that write
MaxCalls == 3
\* a run of the bot handles at most this many messages
MaxMsgs == 4
\* the weight formula is probed for counters 0..MaxCount
MaxCount == 9

\* VARCHAR(100) of en_word and ru_word
VARCHAR_LEN == 100

Users == {1, 2}

\* SQL NULL in a counter column of the LEFT JOIN (counters are >= 0)
NULL == -1
\* Python's None
None == [none |-> TRUE]

Max2(a, b) == IF a >= b THEN a ELSE b
Min2(a, b) == IF a <= b THEN a ELSE b

(***************************************************************************)
(* Python's str methods on sequences of characters.                        *)
(***************************************************************************)
UPPER == <<"A","B","C","D","E","F","G","H","I","J","K","L","M",
           "N","O","P","Q","R","S","T","U","V","W","X","Y","Z">>
LOWER == <<"a","b","c","d","e","f","g","h","i","j","k","l","m",
           "n","o","p","q","r","s","t","u","v","w","x","y","z">>

lower_char(c) ==
    IF \E i \in 1..26 : UPPER[i] = c
    THEN LOWER[CHOOSE i \in 1..26 : UPPER[i] = c]
    ELSE c

\* str.lower()
lower(s) == [i \in 1..Len(s) |-> lower_char(s[i])]

\* str.strip(): drops the leading and the trailing whitespace
strip(s) ==
    LET keep == {i \in 1..Len(s) : s[i] # " "}
    IN  IF keep = {} THEN <<>>
        ELSE SubSeq(s, CHOOSE i \in keep : \A j \in keep : i <= j,
                       CHOOSE i \in keep : \A j \in keep : i >= j)

(***************************************************************************)
(* The words of the model.                                                 *)
(***************************************************************************)
apple == <<"a","p","p","l","e">>
book == <<"b","o","o","k">>
cat == <<"c","a","t">>
dog == <<"d","o","g">>
house == <<"h","o","u","s","e">>
sun == <<"s","u","n">>
tree == <<"t","r","e","e">>
water == <<"w","a","t","e","r">>
hello == <<"h","e","l","l","o">>
goodbye == <<"g","o","o","d","b","y","e">>

\* the seed list of load_initial_words, in its order
default_words ==
    << <<apple, <<"y","a","b","l","o","k","o">> >>,
       <<book, <<"k","n","i","g","a">> >>,
       <<cat, <<"k","o","t">> >>,
       <<dog, <<"s","o","b","a","k","a">> >>,
       <<house, <<"d","o","m">> >>,
       <<sun, <<"s","o","l","n","t","s","e">> >>,
       <<tree, <<"d","e","r","e","v","o">> >>,
       <<water, <<"v","o","d","a">> >>,
       <<hello, <<"p","r","i","v","e","t">> >>,
       <<goodbye, <<"p","o","k","a">> >> >>

VARIABLES
    common_words,        \* table common_words: rows [id, en_word, ru_word]
    user_words,          \* table user_words: rows [id, user_id, en_word, ru_word]
    user_word_progress,  \* table user_word_progress: rows [user_id, word_type,
                         \*   word_ref_id, correct_count, incorrect_count]
    user_preferences,    \* table user_preferences: rows [user_id, input_mode]
    user_words_id_seq,   \* last value drawn from the SERIAL sequence of user_words.id
    calls,               \* how many store calls the run has started
    data,                \* StateMemoryStorage: the data dict of each (user, chat)
    last,                \* what the handling of the last message graded, showed
                         \*   and recorded
    handled,             \* how many messages the handlers have handled
    txn,                 \* the transaction open on the shared connection
    workers              \* the store call each worker thread is in

dbvars == <<common_words, user_words, user_word_progress, user_preferences,
            user_words_id_seq>>
botvars == <<data, last, handled>>
connvars == <<txn, workers>>
vars == <<common_words, user_words, user_word_progress, user_preferences,
          user_words_id_seq, calls, data, last, handled, txn, workers>>

\* the three tables the store methods write, as one value
Tables ==
    [user_words |-> user_words,
     user_word_progress |-> user_word_progress,
     user_preferences |-> user_preferences]

(***************************************************************************)
(* Database.load_initial_words: all seed pairs in one transaction, ids     *)
(* drawn in the order of the list.                                         *)
(***************************************************************************)
SeedRows ==
    {[id |-> i, en_word |-> default_words[i][1], ru_word |-> default_words[i][2]] :
        i \in 1..Min2(MaxSeed, Len(default_words))}

(***************************************************************************)
(* The SQL statements of the store, on a value t of the three tables.      *)
(* Each returns the tables after the statement; error is TRUE when the     *)
(* server rejects the statement.                                           *)
(***************************************************************************)

\* the INSERT with the values as typed, without .lower()
InsertUserWord_AsTyped(t, seq, user_id, en_word, ru_word) ==
    LET en == en_word
        ru == ru_word
    IN  IF Len(en) > VARCHAR_LEN \/ Len(ru) > VARCHAR_LEN
        THEN [error |-> TRUE, t |-> t, seq |-> seq, inserted |-> FALSE]
        ELSE IF \E w \in t.user_words : w.user_id = user_id /\ w.en_word = en
        THEN [error |-> FALSE, t |-> t, seq |-> seq + 1, inserted |-> FALSE]
        ELSE [error |-> FALSE,
              t |-> [t EXCEPT !.user_words = @ \cup
                        {[id |-> seq + 1, user_id |-> user_id,
                          en_word |-> en, ru_word |-> ru]}],
              seq |-> seq + 1, inserted |-> TRUE]

\* INSERT INTO user_words ... ON CONFLICT (user_id, en_word) DO NOTHING RETURNING id
\* with the values lower-cased by the caller; the sequence value is drawn
\* before the conflict is detected and is not given back.
InsertUserWord(t, seq, user_id, en_word, ru_word) ==
    LET en == lower(en_word)
        ru == lower(ru_word)
    IN  IF Len(en) > VARCHAR_LEN \/ Len(ru) > VARCHAR_LEN
        THEN [error |-> TRUE, t |-> t, seq |-> seq, inserted |-> FALSE]
        ELSE IF \E w \in t.user_words : w.user_id = user_id /\ w.en_word = en
        THEN [error |-> FALSE, t |-> t, seq |-> seq + 1, inserted |-> FALSE]
        ELSE [error |-> FALSE,
              t |-> [t EXCEPT !.user_words = @ \cup
                        {[id |-> seq + 1, user_id |-> user_id,
                          en_word |-> en, ru_word |-> ru]}],
              seq |-> seq + 1, inserted |-> TRUE]

\* the upsert with DO UPDATE SET <counter> = EXCLUDED.<counter>
UpsertProgress_Excluded(t, user_id, word_type, word_ref_id, is_correct) ==
    LET hit(p) == /\ p.user_id = user_id
                  /\ p.word_type = word_type
                  /\ p.word_ref_id = word_ref_id
        bump(p) == IF is_correct
                   THEN [p EXCEPT !.correct_count = 1]
                   ELSE [p EXCEPT !.incorrect_count = 1]
        fresh == [user_id |-> user_id, word_type |-> word_type,
                  word_ref_id |-> word_ref_id,
                  correct_count |-> IF is_correct THEN 1 ELSE 0,
                  incorrect_count |-> IF is_correct THEN 0 ELSE 1]
    IN  IF \E p \in t.user_word_progress : hit(p)
        THEN [t EXCEPT !.user_word_progress =
                 {IF hit(p) THEN bump(p) ELSE p : p \in @}]
        ELSE [t EXCEPT !.user_word_progress = @ \cup {fresh}]

\* INSERT INTO user_word_progress ... VALUES (.., 1, 0, ..) / (.., 0, 1, ..)
\* ON CONFLICT (user_id, word_type, word_ref_id) DO UPDATE SET <counter> = <counter> + 1
UpsertProgress(t, user_id, word_type, word_ref_id, is_correct) ==
    LET hit(p) == /\ p.user_id = user_id
                  /\ p.word_type = word_type
                  /\ p.word_ref_id = word_ref_id
        bump(p) == IF is_correct
                   THEN [p EXCEPT !.correct_count = @ + 1]
                   ELSE [p EXCEPT !.incorrect_count = @ + 1]
        fresh == [user_id |-> user_id, word_type |-> word_type,
                  word_ref_id |-> word_ref_id,
                  correct_count |-> IF is_correct THEN 1 ELSE 0,
                  incorrect_count |-> IF is_correct THEN 0 ELSE 1]
    IN  IF \E p \in t.user_word_progress : hit(p)
        THEN [t EXCEPT !.user_word_progress =
                 {IF hit(p) THEN bump(p) ELSE p : p \in @}]
        ELSE [t EXCEPT !.user_word_progress = @ \cup {fresh}]

\* the SELECT without user_id = %s in its WHERE
SelectUserWordIds_AnyUser(t, user_id, en_word_lower) ==
    {w.id : w \in {x \in t.user_words :
                      x.en_word = en_word_lower}}

\* SELECT id FROM user_words WHERE user_id = %s AND en_word = %s
SelectUserWordIds(t, user_id, en_word_lower) ==
    {w.id : w \in {x \in t.user_words :
                      x.user_id = user_id /\ x.en_word = en_word_lower}}

\* DELETE FROM user_word_progress WHERE user_id = %s AND word_type = 'user'
\*   AND word_ref_id = %s
DeleteProgress(t, user_id, word_id) ==
    [t EXCEPT !.user_word_progress =
        {p \in @ : ~(p.user_id = user_id /\ p.word_type = "user"
                      /\ p.word_ref_id = word_id)}]

\* DELETE FROM user_words WHERE id = %s
DeleteUserWordRow(t, word_id) ==
    [t EXCEPT !.user_words = {w \in @ : w.id # word_id}]

\* INSERT INTO user_preferences ... ON CONFLICT (user_id) DO UPDATE SET input_mode = ..
UpsertPreference(t, user_id, mode) ==
    [t EXCEPT !.user_preferences =
        {p \in @ : p.user_id # user_id} \cup
        {[user_id |-> user_id, input_mode |-> mode]}]

(***************************************************************************)
(* The methods of class Database, called on a connection with no           *)
(* transaction open: the statements, then commit, or rollback when a       *)
(* statement raised.  Each yields [ret, t, seq]: the value returned, the   *)
(* committed tables and the sequence afterwards.                           *)
(***************************************************************************)

add_user_word(t, seq, user_id, en_word, ru_word) ==
    LET r == InsertUserWord(t, seq, user_id, en_word, ru_word)
    IN  IF r.error
        THEN [ret |-> FALSE, t |-> t, seq |-> r.seq]
        ELSE [ret |-> r.inserted, t |-> r.t, seq |-> r.seq]

delete_user_word(t, user_id, en_word) ==
    LET en_word_lower == lower(en_word)
        found == SelectUserWordIds(t, user_id, en_word_lower)
    IN  IF found = {}
        THEN [ret |-> FALSE, t |-> t]
        ELSE LET word_id_to_delete == CHOOSE id \in found : TRUE
                 t1 == DeleteProgress(t, user_id, word_id_to_delete)
                 t2 == DeleteUserWordRow(t1, word_id_to_delete)
                 deleted_count == Cardinality(t1.user_words) - Cardinality(t2.user_words)
             IN  [ret |-> deleted_count > 0, t |-> t2]

record_answer(t, user_id, word_type, word_ref_id, is_correct) ==
    [ret |-> TRUE, t |-> UpsertProgress(t, user_id, word_type, word_ref_id, is_correct)]

\* the method without the test "if mode not in ('buttons', 'keyboard')"
set_user_input_mode_Unchecked(t, user_id, mode) ==
    IF FALSE
    THEN [ret |-> FALSE, t |-> t]
    ELSE [ret |-> TRUE, t |-> UpsertPreference(t, user_id, mode)]

set_user_input_mode(t, user_id, mode) ==
    IF mode \notin {"buttons", "keyboard"}
    THEN [ret |-> FALSE, t |-> t]
    ELSE [ret |-> TRUE, t |-> UpsertPreference(t, user_id, mode)]

get_user_input_mode(t, user_id) ==
    LET found == {p \in t.user_preferences : p.user_id = user_id}
    IN  IF found = {} THEN "buttons" ELSE (CHOOSE p \in found : TRUE).input_mode

\* SELECT COUNT(DISTINCT en_word) over common_words UNION the user's user_words
count_total_words(t, user_id) ==
    Cardinality({w.en_word : w \in common_words} \cup
                {w.en_word : w \in {x \in t.user_words : x.user_id = user_id}})

\* SUM(<column>) over rows, 0 for no rows as COALESCE(SUM(..), 0) gives
RECURSIVE SUM(_, _)
SUM(rows, column) ==
    IF rows = {} THEN 0
    ELSE LET p == CHOOSE x \in rows : TRUE
         IN  p[column] + SUM(rows \ {p}, column)

\* the query without its WHERE user_id = %s
get_user_stats_AllUsers(t, user_id) ==
    LET rows == {p \in t.user_word_progress : TRUE}
    IN  [total_correct |-> SUM(rows, "correct_count"),
         total_incorrect |-> SUM(rows, "incorrect_count"),
         words_practiced |-> Cardinality(rows)]

\* SELECT COALESCE(SUM(correct_count), 0), COALESCE(SUM(incorrect_count), 0),
\*   COUNT(*) FROM user_word_progress WHERE user_id = %s
get_user_stats(t, user_id) ==
    LET rows == {p \in t.user_word_progress : p.user_id = user_id}
    IN  [total_correct |-> SUM(rows, "correct_count"),
         total_incorrect |-> SUM(rows, "incorrect_count"),
         words_practiced |-> Cardinality(rows)]

(***************************************************************************)
(* Database.get_random_card.                                               *)
(***************************************************************************)

\* the query with the filter user_id = %(user_id)s of its second SELECT left out
words_data_with_progress_AllUsers(t, user_id) ==
    LET w == {[en_word |-> c.en_word, ru_word |-> c.ru_word,
               word_type |-> "common", word_ref_id |-> c.id] : c \in common_words}
             \cup
             {[en_word |-> u.en_word, ru_word |-> u.ru_word,
               word_type |-> "user", word_ref_id |-> u.id] : u \in t.user_words}
        match(x) == {p \in t.user_word_progress :
                        /\ x.word_ref_id = p.word_ref_id
                        /\ x.word_type = p.word_type
                        /\ p.user_id = user_id}
    IN  UNION {IF match(x) = {}
               THEN {[en_word |-> x.en_word, ru_word |-> x.ru_word,
                      word_type |-> x.word_type, word_ref_id |-> x.word_ref_id,
                      correct_count |-> NULL, incorrect_count |-> NULL]}
               ELSE {[en_word |-> x.en_word, ru_word |-> x.ru_word,
                      word_type |-> x.word_type, word_ref_id |-> x.word_ref_id,
                      correct_count |-> p.correct_count,
                      incorrect_count |-> p.incorrect_count] : p \in match(x)} :
               x \in w}

\* the query with the condition w.word_type = p.word_type of its join left out
words_data_with_progress_JoinByIdOnly(t, user_id) ==
    LET w == {[en_word |-> c.en_word, ru_word |-> c.ru_word,
               word_type |-> "common", word_ref_id |-> c.id] : c \in common_words}
             \cup
             {[en_word |-> u.en_word, ru_word |-> u.ru_word,
               word_type |-> "user", word_ref_id |-> u.id] :
                 u \in {x \in t.user_words : x.user_id = user_id}}
        match(x) == {p \in t.user_word_progress :
                        /\ x.word_ref_id = p.word_ref_id
                        /\ p.user_id = user_id}
        joined(x, c, i) == [en_word |-> x.en_word, ru_word |-> x.ru_word,
                            word_type |-> x.word_type, word_ref_id |-> x.word_ref_id,
                            correct_count |-> c, incorrect_count |-> i]
    IN  UNION {IF match(x) = {}
               THEN {joined(x, NULL, NULL)}
               ELSE {joined(x, p.correct_count, p.incorrect_count) : p \in match(x)} :
               x \in w}

\* the query with the condition p.user_id = %(user_id)s of its join left out
words_data_with_progress_AnyUsersProgress(t, user_id) ==
    LET w == {[en_word |-> c.en_word, ru_word |-> c.ru_word,
               word_type |-> "common", word_ref_id |-> c.id] : c \in common_words}
             \cup
             {[en_word |-> u.en_word, ru_word |-> u.ru_word,
               word_type |-> "user", word_ref_id |-> u.id] :
                 u \in {x \in t.user_words : x.user_id = user_id}}
        match(x) == {p \in t.user_word_progress :
                        /\ x.word_ref_id = p.word_ref_id
                        /\ x.word_type = p.word_type}
        joined(x, c, i) == [en_word |-> x.en_word, ru_word |-> x.ru_word,
                            word_type |-> x.word_type, word_ref_id |-> x.word_ref_id,
                            correct_count |-> c, incorrect_count |-> i]
    IN  UNION {IF match(x) = {}
               THEN {joined(x, NULL, NULL)}
               ELSE {joined(x, p.correct_count, p.incorrect_count) : p \in match(x)} :
               x \in w}

\* the query of step 1: common_words UNION the user's user_words, LEFT JOIN
\* the user's rows of user_word_progress
words_data_with_progress(t, user_id) ==
    LET w == {[en_word |-> c.en_word, ru_word |-> c.ru_word,
               word_type |-> "common", word_ref_id |-> c.id] : c \in common_words}
             \cup
             {[en_word |-> u.en_word, ru_word |-> u.ru_word,
               word_type |-> "user", word_ref_id |-> u.id] :
                 u \in {x \in t.user_words : x.user_id = user_id}}
        match(x) == {p \in t.user_word_progress :
                        /\ x.word_ref_id = p.word_ref_id
                        /\ x.word_type = p.word_type
                        /\ p.user_id = user_id}
        joined(x, c, i) == [en_word |-> x.en_word, ru_word |-> x.ru_word,
                            word_type |-> x.word_type, word_ref_id |-> x.word_ref_id,
                            correct_count |-> c, incorrect_count |-> i]
    IN  UNION {IF match(x) = {}
               THEN {joined(x, NULL, NULL)}
               ELSE {joined(x, p.correct_count, p.incorrect_count) : p \in match(x)} :
               x \in w}

\* the weight with the correct answers added instead of subtracted
final_weight_CorrectAdds(correct_c, incorrect_c) ==
    LET correct_count == IF correct_c # NULL THEN correct_c ELSE 0
        incorrect_count == IF incorrect_c # NULL THEN incorrect_c ELSE 0
        weight == IF correct_count = 0 /\ incorrect_count = 0 THEN 10
                  ELSE IF incorrect_count > 0
                       THEN 5 + incorrect_count * 2 + correct_count
                  ELSE IF correct_count > 0 THEN Max2(1, 5 - correct_count)
                  ELSE 1
    IN  Max2(1, weight)

\* the weight with max(1, 10 - correct_count) for the words answered
\* correctly only
final_weight_MasteredFromTen(correct_c, incorrect_c) ==
    LET correct_count == IF correct_c # NULL THEN correct_c ELSE 0
        incorrect_count == IF incorrect_c # NULL THEN incorrect_c ELSE 0
        weight == IF correct_count = 0 /\ incorrect_count = 0 THEN 10
                  ELSE IF incorrect_count > 0
                       THEN 5 + incorrect_count * 2 - correct_count
                  ELSE IF correct_count > 0 THEN Max2(1, 10 - correct_count)
                  ELSE 1
    IN  Max2(1, weight)

\* the weight with a mistake counted once instead of twice
final_weight_SingleMistake(correct_c, incorrect_c) ==
    LET correct_count == IF correct_c # NULL THEN correct_c ELSE 0
        incorrect_count == IF incorrect_c # NULL THEN incorrect_c ELSE 0
        weight == IF correct_count = 0 /\ incorrect_count = 0 THEN 10
                  ELSE IF incorrect_count > 0
                       THEN 5 + incorrect_count - correct_count
                  ELSE IF correct_count > 0 THEN Max2(1, 5 - correct_count)
                  ELSE 1
    IN  Max2(1, weight)

\* the weight without the final max(1, weight)
final_weight_Unclamped(correct_c, incorrect_c) ==
    LET correct_count == IF correct_c # NULL THEN correct_c ELSE 0
        incorrect_count == IF incorrect_c # NULL THEN incorrect_c ELSE 0
    IN  IF correct_count = 0 /\ incorrect_count = 0 THEN 10
        ELSE IF incorrect_count > 0
             THEN 5 + incorrect_count * 2 - correct_count
        ELSE IF correct_count > 0 THEN Max2(1, 5 - correct_count)
        ELSE 1

\* step 2: the weight of one row from its counters
final_weight(correct_c, incorrect_c) ==
    LET correct_count == IF correct_c # NULL THEN correct_c ELSE 0
        incorrect_count == IF incorrect_c # NULL THEN incorrect_c ELSE 0
        weight == IF correct_count = 0 /\ incorrect_count = 0 THEN 10
                  ELSE IF incorrect_count > 0
                       THEN 5 + incorrect_count * 2 - correct_count
                  ELSE IF correct_count > 0 THEN Max2(1, 5 - correct_count)
                  ELSE 1
    IN  Max2(1, weight)

word_info(row) ==
    [en_word |-> row.en_word, ru_word |-> row.ru_word,
     word_type |-> row.word_type, word_ref_id |-> row.word_ref_id]

\* itertools.accumulate(weights)
RECURSIVE accumulate(_, _)
accumulate(weights, i) ==
    IF i = 0 THEN 0 ELSE accumulate(weights, i - 1) + weights[i]

\* the draw by random.choice(population): every element alike
choices_Uniform(population, weights, ticket) ==
    population[(ticket % Len(population)) + 1]

\* random.choices(population, weights, k=1)[0]:
\*   population[bisect(cum_weights, random() * total, 0, n - 1)]
\* random() * total is uniform on [0, total); ticket is its integer part,
\* uniform on 0..total-1, and as the weights are integers bisect yields for
\* the whole of [ticket, ticket + 1) the first index whose cumulated weight
\* is above ticket
choices(population, weights, ticket) ==
    population[CHOOSE i \in 1..Len(population) :
                  /\ accumulate(weights, i) > ticket
                  /\ \A j \in 1..(i - 1) : accumulate(weights, j) <= ticket]

\* cur.fetchall(): the rows of the query, in some order
RECURSIVE fetchall(_)
fetchall(rows) ==
    IF rows = {} THEN <<>>
    ELSE LET row == CHOOSE r \in rows : TRUE
         IN  <<row>> \o fetchall(rows \ {row})

\* the draw replaced by the choice of a row of the greatest weight
selected_word_info_HeaviestOnly(rows) ==
    LET weight(r) == final_weight(r.correct_count, r.incorrect_count)
    IN  {word_info(r) : r \in {x \in rows : \A y \in rows : weight(x) >= weight(y)}}

\* step 3: random.choices(population, weights, k=1)[0] yields an element of
\* positive weight; it raises ValueError when the weights sum to zero, and
\* then random.choice(population) yields any element
selected_word_info(rows) ==
    LET positive == {r \in rows :
                        final_weight(r.correct_count, r.incorrect_count) > 0}
    IN  {word_info(r) : r \in IF positive = {} THEN rows ELSE positive}

\* step 4: [w for w in all_available_en_words if w != target_en_word], one
\* entry per row, as a bag of texts
other_en_words(rows, target_en_word) ==
    LET texts == {r.en_word : r \in rows} \ {target_en_word}
    IN  [w \in texts |-> Cardinality({r \in rows : r.en_word = w})]

\* the options with min(4, ..) distractors instead of min(3, ..)
options_of_FourDistractors(rows, target_en_word) ==
    LET other == other_en_words(rows, target_en_word)
        num_options == Min2(4, BagCardinality(other))
    IN  {sample (+) SetToBag({target_en_word}) :
            sample \in {b \in SubBag(other) : BagCardinality(b) = num_options}}

\* the options with random.sample(other_en_words, 3): the sample raises
\* when fewer than three other texts exist, and no card is made
options_of_ThreeAlways(rows, target_en_word) ==
    LET other == other_en_words(rows, target_en_word)
    IN  {sample (+) SetToBag({target_en_word}) :
            sample \in {b \in SubBag(other) : BagCardinality(b) = 3}}

\* random.sample(other_en_words, num_options) + [target_en_word], shuffled:
\* the bag of the texts shown (random.shuffle changes their order only)
options_of(rows, target_en_word) ==
    LET other == other_en_words(rows, target_en_word)
        num_options == Min2(3, BagCardinality(other))
    IN  {sample (+) SetToBag({target_en_word}) :
            sample \in {b \in SubBag(other) : BagCardinality(b) = num_options}}

\* the call without the test "if not words_data_with_progress"
get_random_card_NoEmptyCheck(t, user_id) ==
    LET rows == words_data_with_progress(t, user_id)
    IN  UNION {{[en_word |-> s.en_word, ru_word |-> s.ru_word,
                 options |-> o, word_type |-> s.word_type,
                 word_ref_id |-> s.word_ref_id] :
                   o \in options_of(rows, s.en_word)} :
               s \in selected_word_info(rows)}

\* every card the call may return; None when the query yields no row
get_random_card(t, user_id) ==
    LET rows == words_data_with_progress(t, user_id)
    IN  IF rows = {} THEN {None}
        ELSE UNION {{[en_word |-> s.en_word, ru_word |-> s.ru_word,
                      options |-> o, word_type |-> s.word_type,
                      word_ref_id |-> s.word_ref_id] :
                        o \in options_of(rows, s.en_word)} :
                    s \in selected_word_info(rows)}

(***************************************************************************)
(* The state after Database.__init__: the tables exist and are empty save  *)
(* for the seed; load_initial_words returns False when its INSERT raised,  *)
(* and __init__ goes on with common_words empty.                           *)
(***************************************************************************)
InitDb ==
    /\ common_words \in {SeedRows, {}}
    /\ user_words = {}
    /\ user_word_progress = {}
    /\ user_preferences = {}
    /\ user_words_id_seq = 0

(***************************************************************************)
(* bot.py: the conversation state and the texts of the messages.           *)
(***************************************************************************)

\* (user_id, chat_id) of the messages: each user writes in a private chat,
\* whose chat id is the user id
Sources == {<<1, 1>>, <<2, 2>>}

\* user 1 writing in a group the bot is a member of: message.from_user.id is
\* the user's id, message.chat.id the group's
GroupChat == <<1, 3>>

\* the keys of the state storage: set_state and retrieve_data take
\* (user_id, chat_id)
Chats == Sources \cup {GroupChat}

Workers == {1, 2}

\* Python dicts as functions on their keys
EmptyDict == [k \in {} |-> TRUE]
dict_pop(d, k) == [x \in DOMAIN d \ {k} |-> d[x]]
dict_update(d, e) ==
    [x \in DOMAIN d \cup DOMAIN e |-> IF x \in DOMAIN e THEN e[x] ELSE d[x]]
\* d.get(k) is None
get_is_None(d, k) == k \notin DOMAIN d

\* the labels of the reply keyboard, in Latin letters
BUTTON_NEXT_CARD == <<"D","a","l","s","h","e"," ",">",">">>
BUTTON_ADD_WORD ==
    <<"D","o","b","a","v","i","t"," ","s","l","o","v","o"," ","+">>
BUTTON_DELETE_WORD ==
    <<"U","d","a","l","i","t"," ","s","l","o","v","o">>

NoLast == [kind |-> "other"]
Idle == [pc |-> "idle"]
NoTxn == [status |-> "idle"]

Init ==
    /\ InitDb
    /\ calls = 0
    /\ data = [src \in Chats |-> None]
    /\ last = NoLast
    /\ handled = 0
    /\ txn = NoTxn
    /\ workers = [w \in Workers |-> Idle]

(***************************************************************************)
(* The store called method by method, one call at a time.                  *)
(***************************************************************************)
ox == <<"o","x">>

\* the (en_word, ru_word) pairs handed to add_user_word
WordInputs ==
    { << <<"A","p","p","l","e">>, <<"X">> >>,
      << ox, <<"y">> >>,
      << <<"C","a","t">>, <<"z">> >>,
      << [i \in 1..(VARCHAR_LEN + 1) |-> "a"], <<"y">> >> }

SetTables(t) ==
    /\ user_words' = t.user_words
    /\ user_word_progress' = t.user_word_progress
    /\ user_preferences' = t.user_preferences

AddUserWord(user_id, en_word, ru_word) ==
    /\ LET r == add_user_word(Tables, user_words_id_seq, user_id, en_word, ru_word)
       IN  /\ SetTables(r.t)
           /\ user_words_id_seq' = r.seq
    /\ UNCHANGED common_words

DeleteUserWord(user_id, en_word) ==
    /\ SetTables(delete_user_word(Tables, user_id, en_word).t)
    /\ UNCHANGED <<common_words, user_words_id_seq>>

RecordAnswer(user_id, word_type, word_ref_id, is_correct) ==
    /\ UNCHANGED <<common_words, user_words_id_seq>>
    /\ SetTables(record_answer(Tables, user_id, word_type, word_ref_id, is_correct).t)

Call ==
    /\ calls < MaxCalls
    /\ calls' = calls + 1

StoreAddUserWord ==
    \E user_id \in Users, w \in WordInputs :
        /\ Call
        /\ AddUserWord(user_id, w[1], w[2])
        /\ UNCHANGED <<botvars, connvars>>

StoreDeleteUserWord ==
    \E user_id \in Users, w \in WordInputs :
        /\ Call
        /\ DeleteUserWord(user_id, w[1])
        /\ UNCHANGED <<botvars, connvars>>

\* record_answer is called with the key of a card the user was shown
StoreRecordAnswer ==
    \E user_id \in Users, is_correct \in BOOLEAN :
        \E card \in selected_word_info(words_data_with_progress(Tables, user_id)) :
            /\ Call
            /\ RecordAnswer(user_id, card.word_type, card.word_ref_id, is_correct)
            /\ UNCHANGED <<botvars, connvars>>

NextStore ==
    \/ StoreAddUserWord
    \/ StoreDeleteUserWord
    \/ StoreRecordAnswer

SpecStore == Init /\ [][NextStore]_vars

(***************************************************************************)
(* The weights after long runs of answers: every user answers cards of     *)
(* the first seed word, up to MaxCount answers each.                       *)
(***************************************************************************)
AnswersOf(user_id, word_type, word_ref_id) ==
    LET rows == {p \in user_word_progress :
                    /\ p.user_id = user_id
                    /\ p.word_type = word_type
                    /\ p.word_ref_id = word_ref_id}
    IN  IF rows = {} THEN 0
        ELSE LET p == CHOOSE x \in rows : TRUE
             IN  p.correct_count + p.incorrect_count

NextWeight ==
    /\ UNCHANGED <<calls, botvars, connvars>>
    /\ \E user_id \in Users, is_correct \in BOOLEAN :
          \E card \in {c \in get_random_card(Tables, user_id) \ {None} :
                          c.word_type = "common" /\ c.word_ref_id = 1} :
              /\ AnswersOf(user_id, card.word_type, card.word_ref_id) < MaxCount
              /\ RecordAnswer(user_id, card.word_type, card.word_ref_id, is_correct)

SpecWeight == Init /\ [][NextWeight]_vars

(***************************************************************************)
(* The handlers of bot.py, one message at a time.  A handler talks to the  *)
(* user through bot.send_message, which raises when the Telegram API call  *)
(* fails: delivers tells whether the sends of one handling succeed.  It is *)
(* drawn where a handler changes state after a send.                       *)
(***************************************************************************)

\* the comparison without the two lower() calls
is_correct_CaseSensitive(user_text, correct_answer) ==
    user_text = correct_answer

\* is_correct = user_text.lower() == correct_answer.lower()
is_correct(user_text, correct_answer) ==
    lower(user_text) = lower(correct_answer)

card_data_to_store(card) ==
    [correct_answer |-> card.en_word, word_type |-> card.word_type,
     word_ref_id |-> card.word_ref_id]

\* what a handling that grades nothing leaves in last
Ungraded == last' = NoLast

\* what can go wrong with the store while /cards is handled: the connection
\* is found closed by is_bot_available, the query of count_total_words
\* raises, or the query of get_random_card raises
Faults == {"none", "closed", "count", "card"}

\* the reply of handle_cards: count_total_words yields 0 when its query
\* raised, get_random_card yields None when its query raised
cards_reply(fault, total_words, card) ==
    IF fault = "closed" THEN "unavailable"
    ELSE IF total_words = 0 THEN "empty"
    ELSE IF card = None THEN "later"
    ELSE "question"

\* the data handle_cards leaves: untouched when the bot is unavailable, else
\* cleared, and the card stored after the question was sent
cards_data_StoredBeforeSend(d, reply, card, delivers) ==
    IF reply = "unavailable" THEN d
    ELSE IF reply = "question"
    THEN dict_update(EmptyDict, card_data_to_store(card))
    ELSE EmptyDict

cards_data(d, reply, card, delivers) ==
    IF reply = "unavailable" THEN d
    ELSE IF reply = "question" /\ delivers
    THEN dict_update(EmptyDict, card_data_to_store(card))
    ELSE EmptyDict

\* handle_cards under a fault of the store
cards_request(src, fault) ==
    LET user_id == src[1]
        total_words == IF fault = "count" THEN 0
                       ELSE count_total_words(Tables, user_id)
        cards == IF fault = "card" THEN {None}
                 ELSE get_random_card(Tables, user_id)
    IN  /\ UNCHANGED dbvars
        /\ \E card \in cards, delivers \in BOOLEAN :
              LET reply == cards_reply(fault, total_words, card)
              IN  /\ reply # "question" => delivers
                  /\ data' = [data EXCEPT ![src] =
                                 cards_data(data[src], reply, card, delivers)]
                  /\ last' = [kind |-> "cards", user_id |-> user_id,
                              fault |-> fault, reply |-> reply,
                              sent |-> delivers,
                              card |-> IF reply = "question"
                                       THEN card_data_to_store(card) ELSE None]

handle_cards(src) == cards_request(src, "none")

\* the two functions without data.clear()
start_process_NoClear(src, step) ==
    /\ UNCHANGED dbvars
    /\ Ungraded
    /\ data' = [data EXCEPT ![src] =
                   dict_update(IF @ = None THEN EmptyDict ELSE @,
                               [next_step |-> step])]

\* start_adding_word_process and start_deleting_word_process
start_process(src, step) ==
    /\ UNCHANGED dbvars
    /\ Ungraded
    /\ data' = [data EXCEPT ![src] = [next_step |-> step]]

start_adding_word_process(src) == start_process(src, "add_word")

start_deleting_word_process(src) == start_process(src, "delete_word")

\* text.split('-', 1) of a text that holds a '-'
split_dash(text) ==
    LET i == CHOOSE k \in 1..Len(text) :
                 text[k] = "-" /\ \A j \in 1..(k - 1) : text[j] # "-"
    IN  <<SubSeq(text, 1, i - 1), SubSeq(text, i + 1, Len(text))>>

\* what process_word_addition does to the store: ValueError when the text
\* has no '-' or a part is empty, else add_user_word with the two stripped
\* parts
word_addition(user_id, message_text) ==
    LET text == strip(message_text)
    IN  IF \A k \in 1..Len(text) : text[k] # "-"
        THEN UNCHANGED dbvars
        ELSE LET parts == split_dash(text)
                 en_word == strip(parts[1])
                 ru_word == strip(parts[2])
             IN  IF en_word = <<>> \/ ru_word = <<>>
                 THEN UNCHANGED dbvars
                 ELSE AddUserWord(user_id, en_word, ru_word)

process_word_addition(src, message_text) ==
    /\ Ungraded
    /\ word_addition(src[1], message_text)

\* what process_word_deletion does to the store
word_deletion(user_id, message_text) ==
    LET en_word == strip(message_text)
    IN  IF en_word = <<>>
        THEN UNCHANGED dbvars
        ELSE DeleteUserWord(user_id, en_word)

process_word_deletion(src, message_text) ==
    /\ Ungraded
    /\ word_deletion(src[1], message_text)

\* step 3 of handle_non_command_text: the reply is sent, then the answer is
\* recorded, then the card is popped; when the send raises, the with block
\* is left with the data as it was read
grade_answer(src, message_text, d) ==
    LET user_id == src[1]
        user_text == strip(message_text)
        grade == is_correct(user_text, d.correct_answer)
        seen == [kind |-> "graded", user_id |-> user_id, text |-> message_text,
                 correct_answer |-> d.correct_answer,
                 word_type |-> d.word_type, word_ref_id |-> d.word_ref_id,
                 is_correct |-> grade, shown |-> <<>>, recorded |-> <<>>]
    IN  \E delivers \in BOOLEAN :
            IF delivers
            THEN /\ RecordAnswer(user_id, d.word_type, d.word_ref_id, grade)
                 /\ data' = [data EXCEPT ![src] =
                       dict_pop(dict_pop(dict_pop(d, "correct_answer"),
                                         "word_type"), "word_ref_id")]
                 /\ last' = [seen EXCEPT !.shown = <<grade>>,
                                         !.recorded = <<grade>>]
            ELSE /\ UNCHANGED dbvars
                 /\ UNCHANGED data
                 /\ last' = seen

handle_non_command_text(src, message_text) ==
    LET user_text == strip(message_text)
        d == data[src]
    IN  IF user_text = BUTTON_NEXT_CARD THEN handle_cards(src)
        ELSE IF user_text = BUTTON_ADD_WORD THEN start_adding_word_process(src)
        ELSE IF user_text = BUTTON_DELETE_WORD THEN start_deleting_word_process(src)
        ELSE IF d = None
        THEN UNCHANGED <<dbvars, data>> /\ Ungraded
        ELSE IF ~get_is_None(d, "next_step") /\ d.next_step = "add_word"
        THEN /\ data' = [data EXCEPT ![src] = dict_pop(d, "next_step")]
             /\ process_word_addition(src, message_text)
        ELSE IF ~get_is_None(d, "next_step") /\ d.next_step = "delete_word"
        THEN /\ data' = [data EXCEPT ![src] = dict_pop(d, "next_step")]
             /\ process_word_deletion(src, message_text)
        ELSE IF \/ get_is_None(d, "correct_answer")
                \/ get_is_None(d, "word_type")
                \/ get_is_None(d, "word_ref_id")
        THEN UNCHANGED <<dbvars, data>> /\ Ungraded
        ELSE grade_answer(src, message_text, d)

\* the texts users send
Texts ==
    { apple,
      <<" ","A","p","p","L","e"," ">>,
      <<"a","p","p","l","e","s">>,
      <<"a","p"," ","p","l","e">>,
      <<"O","x">>,
      <<" ","o","x"," ","-"," ","Y"," ">>,
      <<"o","x","-">>,
      BUTTON_NEXT_CARD,
      BUTTON_ADD_WORD,
      <<" ">> \o BUTTON_DELETE_WORD }

Message ==
    /\ handled < MaxMsgs
    /\ handled' = handled + 1
    /\ UNCHANGED <<calls, connvars>>

CardsCommand ==
    \E src \in Sources : Message /\ handle_cards(src)

AddWordCommand ==
    \E src \in Sources : Message /\ start_adding_word_process(src)

DeleteWordCommand ==
    \E src \in Sources : Message /\ start_deleting_word_process(src)

TextMessage ==
    \E src \in Sources, message_text \in Texts :
        Message /\ handle_non_command_text(src, message_text)

Next ==
    \/ CardsCommand
    \/ AddWordCommand
    \/ DeleteWordCommand
    \/ TextMessage

Spec == Init /\ [][Next]_vars

(***************************************************************************)
(* The handlers with /cards handled while the store fails.  The query of   *)
(* get_random_card runs only when count_total_words found a word.          *)
(***************************************************************************)
CardsCommandUnderFault ==
    \E src \in Sources, fault \in Faults \ {"none"} :
        /\ fault = "card" => count_total_words(Tables, src[1]) > 0
        /\ Message
        /\ cards_request(src, fault)

NextFault ==
    \/ CardsCommand
    \/ CardsCommandUnderFault
    \/ AddWordCommand
    \/ DeleteWordCommand
    \/ TextMessage

SpecFault == Init /\ [][NextFault]_vars

(***************************************************************************)
(* The store under the worker threads of TeleBot: the handlers run on the  *)
(* threads of the pool and call the methods of the one Database object,    *)
(* whose connection (autocommit off) carries one transaction at a time.    *)
(* A method is a statement followed by conn.commit(), or conn.rollback()   *)
(* when the statement raised; the steps of the threads interleave.         *)
(***************************************************************************)

\* the tables a statement on the connection reads and writes
View == IF txn.status = "intrans" THEN txn.t ELSE Tables

InCall(w) ==
    workers[w].pc \in {"execute", "delete_progress", "delete_word", "commit", "rollback"}

\* the other threads that are in a call; a call keeps in peers the threads
\* and in peer_users the users of the calls that were in progress beside it
Peers(w) == {o \in Workers \ {w} : InCall(o)}

Begin(w, call) ==
    /\ ~InCall(w)
    /\ Call
    /\ workers' = [o \in Workers |->
          IF o = w
          THEN [call EXCEPT !.peers = Peers(w),
                            !.peer_users = {workers[x].user_id : x \in Peers(w)}]
          ELSE IF InCall(o)
          THEN [workers[o] EXCEPT !.peers = @ \cup {w},
                                  !.peer_users = @ \cup {call.user_id}]
          ELSE workers[o]]
    /\ UNCHANGED <<dbvars, txn, botvars>>

\* the words a thread adds: one that fits the column and one that does not
ConcWordInputs == {w \in WordInputs : w[1] = ox \/ Len(w[1]) > VARCHAR_LEN}

BeginRecordAnswer ==
    \E w \in Workers, user_id \in Users, grade \in BOOLEAN :
        Begin(w, [pc |-> "execute", op |-> "record_answer", user_id |-> user_id,
                  word_type |-> "common", word_ref_id |-> 1,
                  is_correct |-> grade, ret |-> FALSE, raised |-> FALSE,
                  peers |-> {}, peer_users |-> {}])

BeginAddUserWord ==
    \E w \in Workers, user_id \in Users, word \in ConcWordInputs :
        Begin(w, [pc |-> "execute", op |-> "add_user_word", user_id |-> user_id,
                  en_word |-> word[1], ru_word |-> word[2],
                  ret |-> FALSE, raised |-> FALSE,
                  peers |-> {}, peer_users |-> {}])

\* self.conn.cursor() raises on a closed connection, cur.execute raises when
\* an earlier statement has aborted the transaction
Refused == txn.status \in {"inerror", "closed"}

\* a method is left by an exception that its except branch did not contain
Raise(w) ==
    workers' = [workers EXCEPT ![w].pc = "returned", ![w].ret = FALSE,
                               ![w].raised = TRUE]

\* cur.execute(update_sql, ..) of record_answer
ExecuteUpsert ==
    \E w \in Workers :
        LET c == workers[w]
        IN  /\ c.pc = "execute" /\ c.op = "record_answer"
            /\ IF Refused
               THEN /\ workers' = [workers EXCEPT ![w].pc = "rollback"]
                    /\ UNCHANGED txn
               ELSE /\ workers' = [workers EXCEPT ![w].pc = "commit"]
                    /\ txn' = [status |-> "intrans",
                               t |-> UpsertProgress(View, c.user_id, c.word_type,
                                                    c.word_ref_id, c.is_correct)]
            /\ UNCHANGED <<dbvars, calls, botvars>>

\* cur.execute(INSERT ..) and cur.fetchone() of add_user_word: a statement
\* the server rejects aborts the transaction
ExecuteInsert ==
    \E w \in Workers :
        LET c == workers[w]
            r == InsertUserWord(View, user_words_id_seq, c.user_id,
                                c.en_word, c.ru_word)
        IN  /\ c.pc = "execute" /\ c.op = "add_user_word"
            /\ IF Refused
               THEN /\ workers' = [workers EXCEPT ![w].pc = "rollback"]
                    /\ UNCHANGED <<txn, user_words_id_seq>>
               ELSE IF r.error
               THEN /\ workers' = [workers EXCEPT ![w].pc = "rollback"]
                    /\ txn' = [status |-> "inerror"]
                    /\ user_words_id_seq' = r.seq
               ELSE /\ workers' = [workers EXCEPT ![w].pc = "commit",
                                                  ![w].ret = r.inserted]
                    /\ txn' = [status |-> "intrans", t |-> r.t]
                    /\ user_words_id_seq' = r.seq
            /\ UNCHANGED <<common_words, user_words, user_word_progress,
                           user_preferences, calls, botvars>>

\* the three statements of delete_user_word; the method returns False, with
\* neither commit nor rollback, when the SELECT finds no word
ExecuteSelect ==
    \E w \in Workers :
        LET c == workers[w]
            found == SelectUserWordIds(View, c.user_id, lower(c.en_word))
        IN  /\ c.pc = "execute" /\ c.op = "delete_user_word"
            /\ IF Refused
               THEN /\ workers' = [workers EXCEPT ![w].pc = "rollback"]
                    /\ UNCHANGED txn
               ELSE /\ txn' = [status |-> "intrans", t |-> View]
                    /\ IF found = {}
                       THEN workers' = [workers EXCEPT ![w].pc = "returned",
                                                       ![w].ret = FALSE]
                       ELSE workers' = [workers EXCEPT
                               ![w].pc = "delete_progress",
                               ![w].word_id_to_delete = CHOOSE id \in found : TRUE]
            /\ UNCHANGED <<dbvars, calls, botvars>>

ExecuteDeleteProgress ==
    \E w \in Workers :
        LET c == workers[w]
        IN  /\ c.pc = "delete_progress"
            /\ IF Refused
               THEN /\ workers' = [workers EXCEPT ![w].pc = "rollback"]
                    /\ UNCHANGED txn
               ELSE /\ workers' = [workers EXCEPT ![w].pc = "delete_word"]
                    /\ txn' = [status |-> "intrans",
                               t |-> DeleteProgress(View, c.user_id,
                                                     c.word_id_to_delete)]
            /\ UNCHANGED <<dbvars, calls, botvars>>

ExecuteDeleteWord ==
    \E w \in Workers :
        LET c == workers[w]
            t2 == DeleteUserWordRow(View, c.word_id_to_delete)
            deleted_count == Cardinality(View.user_words)
                               - Cardinality(t2.user_words)
        IN  /\ c.pc = "delete_word"
            /\ IF Refused
               THEN /\ workers' = [workers EXCEPT ![w].pc = "rollback"]
                    /\ UNCHANGED txn
               ELSE /\ workers' = [workers EXCEPT ![w].pc = "commit",
                                                  ![w].ret = deleted_count > 0]
                    /\ txn' = [status |-> "intrans", t |-> t2]
            /\ UNCHANGED <<dbvars, calls, botvars>>

\* self.conn.commit(): all that the transaction holds becomes durable; on an
\* aborted transaction the server rolls back and the call returns normally;
\* on a closed connection commit raises, and so does the rollback of the
\* except branch
Commit ==
    \E w \in Workers :
        LET c == workers[w]
        IN  /\ c.pc = "commit"
            /\ IF txn.status = "intrans"
               THEN SetTables(txn.t)
               ELSE UNCHANGED <<user_words, user_word_progress, user_preferences>>
            /\ IF txn.status = "closed"
               THEN Raise(w) /\ UNCHANGED txn
               ELSE /\ txn' = NoTxn
                    /\ workers' = [workers EXCEPT
                          ![w].pc = "returned",
                          ![w].ret = IF c.op = "record_answer" THEN TRUE ELSE c.ret]
            /\ UNCHANGED <<common_words, user_words_id_seq, calls, botvars>>

\* self.conn.rollback() of the except branch: it raises on a closed
\* connection
Rollback ==
    \E w \in Workers :
        /\ workers[w].pc = "rollback"
        /\ IF txn.status = "closed"
           THEN Raise(w) /\ UNCHANGED txn
           ELSE /\ txn' = NoTxn
                /\ workers' = [workers EXCEPT ![w].pc = "returned",
                                              ![w].ret = FALSE]
        /\ UNCHANGED <<dbvars, calls, botvars>>

NextConc ==
    \/ BeginRecordAnswer
    \/ BeginAddUserWord
    \/ ExecuteUpsert
    \/ ExecuteInsert
    \/ Commit
    \/ Rollback

SpecConc == Init /\ [][NextConc]_vars

(***************************************************************************)
(* The same threads when the connection is lost: the server or the network *)
(* closes it, or Database.close() runs at shutdown.  Nothing reopens it.   *)
(***************************************************************************)
CloseConnection ==
    /\ txn.status # "closed"
    /\ txn' = [status |-> "closed"]
    /\ UNCHANGED <<dbvars, calls, botvars, workers>>

NextClosed ==
    \/ BeginRecordAnswer
    \/ BeginAddUserWord
    \/ ExecuteUpsert
    \/ ExecuteInsert
    \/ Commit
    \/ Rollback
    \/ CloseConnection

SpecClosed == Init /\ [][NextClosed]_vars

(***************************************************************************)
(* delete_user_word on the threads.  A user first adds the word 'ox' and   *)
(* answers its card, each in a call that no other call overlaps; last      *)
(* keeps the progress rows these answers have created.                     *)
(***************************************************************************)
Quiet == txn.status = "idle" /\ \A w \in Workers : ~InCall(w)

QuietAddUserWord ==
    \E user_id \in Users :
        /\ Quiet
        /\ user_words = {}
        /\ AddUserWord(user_id, ox, <<"y">>)
        /\ UNCHANGED <<calls, botvars, connvars>>

QuietRecordAnswer ==
    \E word \in user_words, grade \in BOOLEAN :
        /\ Quiet
        /\ user_word_progress = {}
        /\ RecordAnswer(word.user_id, "user", word.id, grade)
        /\ last' = [kind |-> "rows", seen |-> user_word_progress']
        /\ UNCHANGED <<calls, data, handled, connvars>>

BeginDeleteUserWord ==
    \E w \in Workers, user_id \in Users :
        Begin(w, [pc |-> "execute", op |-> "delete_user_word",
                  user_id |-> user_id, en_word |-> ox, word_id_to_delete |-> NULL,
                  ret |-> FALSE, raised |-> FALSE,
                  peers |-> {}, peer_users |-> {}])

NextDelete ==
    \/ QuietAddUserWord
    \/ QuietRecordAnswer
    \/ BeginDeleteUserWord
    \/ BeginRecordAnswer
    \/ BeginAddUserWord
    \/ ExecuteSelect
    \/ ExecuteDeleteProgress
    \/ ExecuteDeleteWord
    \/ ExecuteUpsert
    \/ ExecuteInsert
    \/ Commit
    \/ Rollback

SpecDelete == Init /\ [][NextDelete]_vars

(***************************************************************************)
(* The answer handler on the worker threads of TeleBot: two messages of    *)
(* one user are handled by two threads at once.  retrieve_data hands each  *)
(* thread a copy of the data, which the thread saves when it leaves the    *)
(* with block; the reply is sent and the answer recorded in between.       *)
(* /cards is handled in one step.  last tallies, for each user, the cards  *)
(* shown and the calls of record_answer.                                   *)
(***************************************************************************)
Zero == [src \in Sources |-> 0]

Shown(src) == IF last.kind = "tally" THEN last.shown[src] ELSE 0

Recorded(src) == IF last.kind = "tally" THEN last.recorded[src] ELSE 0

Tally(shown, recorded) ==
    [kind |-> "tally",
     shown |-> [src \in Sources |-> Shown(src) + shown[src]],
     recorded |-> [src \in Sources |-> Recorded(src) + recorded[src]]]

HasCard(d) ==
    /\ d # None
    /\ {"correct_answer", "word_type", "word_ref_id"} \subseteq DOMAIN d

\* the answers the users send
AnswerTexts == {apple, <<"O","x">>}

OverlapCards ==
    \E src \in Sources, delivers \in BOOLEAN :
        \E card \in get_random_card(Tables, src[1]) :
            LET reply == cards_reply("none", count_total_words(Tables, src[1]), card)
            IN  /\ handled < MaxMsgs
                /\ handled' = handled + 1
                /\ data' = [data EXCEPT ![src] =
                               cards_data(data[src], reply, card, delivers)]
                /\ last' = Tally([Zero EXCEPT ![src] =
                                     IF reply = "question" /\ delivers
                                     THEN 1 ELSE 0], Zero)
                /\ UNCHANGED <<dbvars, calls, txn, workers>>

\* with bot.retrieve_data(user_id, chat_id) as data: the thread reads the
\* card; it leaves at once when no card is pending
AnswerRetrieve ==
    \E w \in Workers, src \in Sources, message_text \in AnswerTexts :
        /\ workers[w].pc = "idle"
        /\ handled < MaxMsgs
        /\ handled' = handled + 1
        /\ IF HasCard(data[src]) /\ get_is_None(data[src], "next_step")
           THEN workers' = [workers EXCEPT ![w] =
                               [pc |-> "reply", src |-> src,
                                text |-> message_text, d |-> data[src]]]
           ELSE UNCHANGED workers
        /\ UNCHANGED <<dbvars, calls, txn, data, last>>

\* bot.send_message(chat_id, reply), db.record_answer(..) and the three pops
AnswerReply ==
    \E w \in Workers, delivers \in BOOLEAN :
        LET c == workers[w]
            grade == is_correct(strip(c.text), c.d.correct_answer)
        IN  /\ c.pc = "reply"
            /\ IF delivers
               THEN /\ RecordAnswer(c.src[1], c.d.word_type, c.d.word_ref_id, grade)
                    /\ workers' = [workers EXCEPT ![w].pc = "save",
                          ![w].d = dict_pop(dict_pop(dict_pop(c.d, "correct_answer"),
                                                     "word_type"), "word_ref_id")]
                    /\ last' = Tally(Zero, [Zero EXCEPT ![c.src] = 1])
               ELSE /\ UNCHANGED <<dbvars, last>>
                    /\ workers' = [workers EXCEPT ![w].pc = "save"]
            /\ UNCHANGED <<calls, handled, txn, data>>

\* leaving the with block: the copy is saved
AnswerSave ==
    \E w \in Workers :
        /\ workers[w].pc = "save"
        /\ data' = [data EXCEPT ![workers[w].src] = workers[w].d]
        /\ workers' = [workers EXCEPT ![w] = Idle]
        /\ UNCHANGED <<dbvars, calls, handled, txn, last>>

NextOverlap ==
    \/ OverlapCards
    \/ AnswerRetrieve
    \/ AnswerReply
    \/ AnswerSave

SpecOverlap == Init /\ [][NextOverlap]_vars

(***************************************************************************)
(* The input mode: set_user_input_mode called with any value, the callback *)
(* of the inline buttons, and get_user_input_mode, whose query may raise.  *)
(* last keeps the call, what it returned, the preferences before it and,   *)
(* for every user, the mode of the last call of set_user_input_mode that   *)
(* returned True.                                                          *)
(***************************************************************************)
Modes == {"buttons", "keyboard", "voice", ""}

NeverSet == [u \in Users |-> "none"]

LastSet == IF last.kind = "mode" THEN last.set ELSE NeverSet

\* get_user_input_mode when its query may raise: the except branch yields
\* 'buttons'
get_user_input_mode_call(t, user_id, raises) ==
    IF raises THEN "buttons" ELSE get_user_input_mode(t, user_id)

ModeCall(op, user_id, mode, raises, ret, got) ==
    /\ Call
    /\ last' = [kind |-> "mode", op |-> op, user_id |-> user_id, mode |-> mode,
                raises |-> raises, ret |-> ret, got |-> got,
                before |-> user_preferences,
                set |-> IF ret THEN [LastSet EXCEPT ![user_id] = mode]
                        ELSE LastSet]
    /\ UNCHANGED <<common_words, user_words, user_word_progress,
                   user_words_id_seq, data, handled, connvars>>

StoreSetUserInputMode ==
    \E user_id \in Users, mode \in Modes :
        LET r == set_user_input_mode(Tables, user_id, mode)
        IN  /\ ModeCall("set", user_id, mode, FALSE, r.ret, "")
            /\ user_preferences' = r.t.user_preferences

\* callback_set_input_mode: requested_mode is call.data without 'set_mode_';
\* a mode that is not one of the two is answered without a call of the store
callback_set_input_mode(user_id, requested_mode) ==
    IF requested_mode \notin {"buttons", "keyboard"}
    THEN [ret |-> FALSE, t |-> Tables]
    ELSE set_user_input_mode(Tables, user_id, requested_mode)

SetModeCallback ==
    \E user_id \in Users, requested_mode \in Modes :
        LET r == callback_set_input_mode(user_id, requested_mode)
        IN  /\ ModeCall("callback", user_id, requested_mode, FALSE, r.ret, "")
            /\ user_preferences' = r.t.user_preferences

StoreGetUserInputMode ==
    \E user_id \in Users, raises \in BOOLEAN :
        /\ ModeCall("get", user_id, "", raises, FALSE,
                    get_user_input_mode_call(Tables, user_id, raises))
        /\ UNCHANGED user_preferences

NextMode ==
    \/ StoreSetUserInputMode
    \/ SetModeCallback
    \/ StoreGetUserInputMode

SpecMode == Init /\ [][NextMode]_vars

(***************************************************************************)
(* The handlers when the connection may be found closed: every handler     *)
(* begins with "if not is_bot_available(message): return".  The objects    *)
(* bot and db exist whenever a handler is registered, and db.conn is set   *)
(* once, so the test comes down to db.conn.closed.                         *)
(***************************************************************************)

\* the test without "or db.conn.closed"
is_bot_available_NoClosedTest == TRUE

is_bot_available == txn.status # "closed"

\* the handler has replied that the bot is unavailable and returned
unavailable(src) ==
    /\ UNCHANGED <<dbvars, data>>
    /\ last' = [kind |-> "unavailable", user_id |-> src[1]]

DownCardsCommand ==
    \E src \in Sources :
        /\ Message
        /\ IF is_bot_available THEN handle_cards(src)
           ELSE cards_request(src, "closed")

DownAddWordCommand ==
    \E src \in Sources :
        /\ Message
        /\ IF is_bot_available THEN start_adding_word_process(src)
           ELSE unavailable(src)

DownDeleteWordCommand ==
    \E src \in Sources :
        /\ Message
        /\ IF is_bot_available THEN start_deleting_word_process(src)
           ELSE unavailable(src)

DownTextMessage ==
    \E src \in Sources, message_text \in Texts :
        /\ Message
        /\ IF is_bot_available THEN handle_non_command_text(src, message_text)
           ELSE unavailable(src)

NextDown ==
    \/ CloseConnection
    \/ DownCardsCommand
    \/ DownAddWordCommand
    \/ DownDeleteWordCommand
    \/ DownTextMessage

SpecDown == Init /\ [][NextDown]_vars

(***************************************************************************)
(* add_user_word called with English texts that differ in letter case      *)
(* only.  last keeps the call, what it returned and user_words before it.  *)
(***************************************************************************)
CasedInputs == {ox, <<"O","x">>, <<"O","X">>, <<"C","a","t">>}

StoreAddCased ==
    \E user_id \in Users, en_word \in CasedInputs :
        /\ Call
        /\ AddUserWord(user_id, en_word, <<"Y">>)
        /\ last' = [kind |-> "added", user_id |-> user_id, en_word |-> en_word,
                    ret |-> add_user_word(Tables, user_words_id_seq, user_id,
                                          en_word, <<"Y">>).ret,
                    before |-> user_words]
        /\ UNCHANGED <<data, handled, connvars>>

NextAdd == StoreAddCased

SpecAdd == Init /\ [][NextAdd]_vars

(***************************************************************************)
(* One user in two chats, the private chat and a group: the handlers keep  *)
(* the pending card and the pending step per (user, chat), the store keeps *)
(* words and progress per user.  The user owns the word 'ox' from the      *)
(* start of the conversation.                                              *)
(***************************************************************************)
UserChats == {src \in Chats : src[1] = GroupChat[1]}

ChatTexts == {<<"O","x">>, apple, <<" ","o","x"," ","-"," ","Y"," ">>}

ChatsCardsCommand ==
    \E src \in UserChats : Message /\ handle_cards(src)

ChatsAddWordCommand ==
    \E src \in UserChats : Message /\ start_adding_word_process(src)

ChatsDeleteWordCommand ==
    \E src \in UserChats : Message /\ start_deleting_word_process(src)

ChatsTextMessage ==
    \E src \in UserChats, message_text \in ChatTexts :
        Message /\ handle_non_command_text(src, message_text)

NextChats ==
    \/ QuietAddUserWord
    \/ ChatsCardsCommand
    \/ ChatsAddWordCommand
    \/ ChatsDeleteWordCommand
    \/ ChatsTextMessage

SpecChats == Init /\ [][NextChats]_vars

(***************************************************************************)
(* The store with a ledger of its calls: record_answer, delete_user_word   *)
(* and add_user_word one at a time for two users who each keep at most one *)
(* word of their own, both under the same English text.  last keeps the    *)
(* call just made with the tables before it (common_words apart, as        *)
(* Tables leaves it out), the bag of the answers                           *)
(* recorded for words not deleted since, how many answers the deletions    *)
(* took out of that bag, and whose word each id of user_words was given    *)
(* to.                                                                     *)
(***************************************************************************)
Owners == IF last.kind = "ledger" THEN last.owners ELSE {}

Answers == IF last.kind = "ledger" THEN last.answers ELSE EmptyBag

Dropped == IF last.kind = "ledger" THEN last.dropped ELSE 0

\* the answers of the bag that are not for the user word word_id
Keep(answers, word_id) ==
    [a \in {x \in DOMAIN answers :
              ~(x.word_type = "user" /\ x.word_ref_id = word_id)} |-> answers[a]]

Ledger(op, user_id, en_word, ret, answers, dropped, owners) ==
    last' = [kind |-> "ledger", op |-> op, user_id |-> user_id,
             en_word |-> en_word, ret |-> ret, before |-> Tables,
             common |-> common_words,
             answers |-> answers, dropped |-> dropped, owners |-> owners]

\* the keys record_answer can be called with for the user: those of the
\* cards get_random_card deals now (of these the first common word and the
\* user's own words), and those of the user's deleted words, a card of which
\* can still be pending in another chat
AnswerKeys(user_id) ==
    {[word_type |-> c.word_type, word_ref_id |-> c.word_ref_id] :
        c \in {x \in selected_word_info(words_data_with_progress(Tables, user_id)) :
                  x.word_type = "user" \/ x.word_ref_id = 1}}
    \cup {[word_type |-> "user", word_ref_id |-> o[1]] :
             o \in {x \in Owners : x[2] = user_id}}

\* the texts delete_user_word is called with: the users' word as stored and
\* in capitals, and the text of a common word
DeleteInputs == {ox, <<"O","X">>, cat}

LedgerAddUserWord ==
    \E user_id \in Users :
        /\ \A w \in user_words : w.user_id # user_id
        /\ AddUserWord(user_id, ox, <<"y">>)
        /\ Ledger("add", user_id, ox,
                  add_user_word(Tables, user_words_id_seq, user_id, ox, <<"y">>).ret,
                  Answers, Dropped,
                  Owners \cup {<<user_words_id_seq + 1, user_id>>})
        /\ UNCHANGED <<calls, data, handled, connvars>>

\* record_answer is called with the key of a card the user was shown
LedgerRecordAnswer ==
    \E user_id \in Users, grade \in BOOLEAN :
        \E card \in AnswerKeys(user_id) :
            /\ Call
            /\ RecordAnswer(user_id, card.word_type, card.word_ref_id, grade)
            /\ Ledger("record", user_id, <<>>,
                      record_answer(Tables, user_id, card.word_type,
                                    card.word_ref_id, grade).ret,
                      Answers (+) SetToBag({[user_id |-> user_id,
                                             word_type |-> card.word_type,
                                             word_ref_id |-> card.word_ref_id,
                                             is_correct |-> grade]}),
                      Dropped, Owners)
            /\ UNCHANGED <<data, handled, connvars>>

LedgerDeleteUserWord ==
    \E user_id \in Users, en_word \in DeleteInputs :
        LET r == delete_user_word(Tables, user_id, en_word)
            gone == {w.id : w \in user_words \ r.t.user_words}
            kept == IF gone = {} THEN Answers
                    ELSE Keep(Answers, CHOOSE id \in gone : TRUE)
        IN  /\ Call
            /\ DeleteUserWord(user_id, en_word)
            /\ Ledger("delete", user_id, en_word, r.ret, kept,
                      Dropped + BagCardinality(Answers) - BagCardinality(kept),
                      Owners)
            /\ UNCHANGED <<data, handled, connvars>>

NextLedger ==
    \/ LedgerAddUserWord
    \/ LedgerRecordAnswer
    \/ LedgerDeleteUserWord

SpecLedger == Init /\ [][NextLedger]_vars

(***************************************************************************)
(* The texts that follow /add_word and /delete_word, handled on the two    *)
(* worker threads: a thread reads the data of the chat in                  *)
(* `with bot.retrieve_data(..)`, pops next_step from what it read, calls   *)
(* process_word_addition or process_word_deletion inside the with block,   *)
(* and the data is saved when the block is left.  last counts, for each    *)
(* chat, the steps started and the texts taken as the word of a step.      *)
(***************************************************************************)
Started(src) == IF last.kind = "steps" THEN last.started[src] ELSE 0

Taken(src) == IF last.kind = "steps" THEN last.taken[src] ELSE 0

Steps(started, taken) ==
    [kind |-> "steps",
     started |-> [src \in Sources |-> Started(src) + started[src]],
     taken |-> [src \in Sources |-> Taken(src) + taken[src]]]

\* the texts sent after /add_word or /delete_word: a pair, a text with an
\* empty translation, and a word alone
StepTexts ==
    { <<"o","x"," ","-"," ","y">>, <<"o","x","-">>, <<"o","x">> }

\* /add_word and /delete_word, handled at once
StepsCommand ==
    \E src \in Sources, step \in {"add_word", "delete_word"} :
        /\ handled < MaxMsgs
        /\ handled' = handled + 1
        /\ data' = [data EXCEPT ![src] = [next_step |-> step]]
        /\ last' = Steps([Zero EXCEPT ![src] = 1], Zero)
        /\ UNCHANGED <<dbvars, calls, txn, workers>>

\* with bot.retrieve_data(user_id, chat_id) as data: the thread reads the
\* step and pops it from what it read; it leaves at once when there is no
\* data or no step (no card is pending in these runs)
StepRetrieve ==
    \E w \in Workers, src \in Sources, message_text \in StepTexts :
        /\ workers[w].pc = "idle"
        /\ handled < MaxMsgs
        /\ handled' = handled + 1
        /\ IF data[src] # None /\ ~get_is_None(data[src], "next_step")
           THEN /\ workers' = [workers EXCEPT ![w] =
                                  [pc |-> "process", src |-> src,
                                   text |-> message_text,
                                   step |-> data[src].next_step,
                                   d |-> dict_pop(data[src], "next_step")]]
                /\ last' = Steps(Zero, [Zero EXCEPT ![src] = 1])
           ELSE UNCHANGED <<workers, last>>
        /\ UNCHANGED <<dbvars, calls, txn, data>>

\* process_word_addition(message) or process_word_deletion(message)
StepProcess ==
    \E w \in Workers :
        LET c == workers[w]
        IN  /\ c.pc = "process"
            /\ IF c.step = "add_word"
               THEN word_addition(c.src[1], c.text)
               ELSE word_deletion(c.src[1], c.text)
            /\ workers' = [workers EXCEPT ![w].pc = "save"]
            /\ UNCHANGED <<calls, handled, txn, data, last>>

\* leaving the with block: what the thread read, without the step, is saved
StepSave ==
    \E w \in Workers :
        /\ workers[w].pc = "save"
        /\ data' = [data EXCEPT ![workers[w].src] = workers[w].d]
        /\ workers' = [workers EXCEPT ![w] = Idle]
        /\ UNCHANGED <<dbvars, calls, handled, txn, last>>

NextSteps ==
    \/ StepsCommand
    \/ StepRetrieve
    \/ StepProcess
    \/ StepSave

SpecSteps == Init /\ [][NextSteps]_vars

\* SpecSteps with the texts handled one at a time: a thread starts on a text
\* only when the other is idle
NextStepsInTurn ==
    \/ StepsCommand
    \/ StepRetrieve /\ \A w \in Workers : workers[w].pc = "idle"
    \/ StepProcess
    \/ StepSave

SpecStepsInTurn == Init /\ [][NextStepsInTurn]_vars

(***************************************************************************)
(* What the claims speak of.                                               *)
(***************************************************************************)

\* the candidate set of a user, read off the tables: every common word and
\* every word of the user, each with its identity and texts
Candidates(user_id) ==
    {[word_type |-> "common", word_ref_id |-> c.id,
      en_word |-> c.en_word, ru_word |-> c.ru_word] : c \in common_words}
    \cup
    {[word_type |-> "user", word_ref_id |-> w.id,
      en_word |-> w.en_word, ru_word |-> w.ru_word] :
        w \in {x \in user_words : x.user_id = user_id}}

Cards(user_id) == get_random_card(Tables, user_id)

\* C1: for a non-empty candidate set every card the call may return names,
\* by (word_type, word_ref_id), exactly one candidate, and carries the
\* en_word and ru_word of that candidate.
C1_CardIsOneCandidate ==
    \A u \in Users :
        Candidates(u) # {} =>
            \A card \in Cards(u) :
                /\ card # None
                /\ LET same == {c \in Candidates(u) :
                                   /\ c.word_type = card.word_type
                                   /\ c.word_ref_id = card.word_ref_id}
                   IN  /\ Cardinality(same) = 1
                       /\ \A c \in same : /\ c.en_word = card.en_word
                                          /\ c.ru_word = card.ru_word

\* a user owns a word spelled like a common word, has answered a card, and
\* may be dealt the word of their own
C1_Witness ==
    \E u \in Users :
        /\ \E w \in user_words, c \in common_words :
              w.user_id = u /\ w.en_word = c.en_word
        /\ \E p \in user_word_progress : p.user_id = u
        /\ \E card \in Cards(u) : card # None /\ card.word_type = "user"

\* the counters of a joined row, a missing progress row counting as (0, 0)
CountOf(c) == IF c = NULL THEN 0 ELSE c

\* the weight the specification gives to counters (correct, incorrect)
SpecifiedWeight(correct, incorrect) ==
    CASE correct = 0 /\ incorrect = 0 -> 10
      [] incorrect > 0 -> Max2(1, 5 + 2 * incorrect - correct)
      [] correct > 0 /\ incorrect = 0 -> Max2(1, 5 - correct)

\* C2: the weight computed for every candidate row is the one the three
\* tiers of the specification give to its counters.
C2_WeightTiers ==
    \A u \in Users :
        \A row \in words_data_with_progress(Tables, u) :
            final_weight(row.correct_count, row.incorrect_count)
                = SpecifiedWeight(CountOf(row.correct_count),
                                  CountOf(row.incorrect_count))

\* a word with incorrect = 2 and correct = 1 (weight 8), one never answered
\* and one with correct answers only
C2_Witness ==
    \E u \in Users :
        LET rows == words_data_with_progress(Tables, u)
        IN  /\ \E r \in rows : /\ r.correct_count = 1 /\ r.incorrect_count = 2
                               /\ final_weight(r.correct_count, r.incorrect_count) = 8
            /\ \E r \in rows : r.correct_count = NULL
            /\ \E v \in Users :
                  \E r \in words_data_with_progress(Tables, v) :
                      r.correct_count = 6 /\ r.incorrect_count = 0

\* C3: the weight computed for every candidate row is an integer >= 1.
C3_WeightAtLeastOne ==
    \A u \in Users :
        \A row \in words_data_with_progress(Tables, u) :
            LET w == final_weight(row.correct_count, row.incorrect_count)
            IN  w \in Nat /\ w >= 1

\* counters at which each tier formula, unclamped, would drop below 1
C3_Witness ==
    /\ \E u \in Users :
          \E r \in words_data_with_progress(Tables, u) :
              r.incorrect_count = 1 /\ r.correct_count >= 7
    /\ \E u \in Users :
          \E r \in words_data_with_progress(Tables, u) :
              r.incorrect_count = 0 /\ r.correct_count >= 5

\* C4: the options of every card are pairwise distinct texts and hold the
\* en_word of the card.
C4_OptionsDistinct ==
    \A u \in Users :
        \A card \in Cards(u) \ {None} :
            /\ \A w \in BagToSet(card.options) : CopiesIn(w, card.options) = 1
            /\ BagIn(card.en_word, card.options)

\* C5: a card dealt from a candidate set of n rows has min(n, 4) options.
C5_OptionCount ==
    \A u \in Users :
        \A card \in Cards(u) \ {None} :
            BagCardinality(card.options) = Min2(Cardinality(Candidates(u)), 4)

\* candidate sets of one row and of two rows, dealt with as many options
C5_Witness ==
    /\ \E u \in Users :
          /\ Cardinality(Candidates(u)) = 2
          /\ \E card \in Cards(u) : BagCardinality(card.options) = 2
    /\ \E u \in Users :
          /\ Cardinality(Candidates(u)) = 1
          /\ \E card \in Cards(u) : BagCardinality(card.options) = 1

\* the text between the first and the last character that is not a blank
Body(text) ==
    LET solid == {k \in 1..Len(text) : text[k] # " "}
    IN  IF solid = {} THEN <<>>
        ELSE SubSeq(text, CHOOSE k \in solid : \A j \in solid : k <= j,
                          CHOOSE k \in solid : \A j \in solid : k >= j)

SameLetter(a, b) ==
    a = b \/ \E i \in 1..Len(UPPER) : {a, b} = {UPPER[i], LOWER[i]}

\* a and b are equal but for the case of their letters
SameIgnoringCase(a, b) ==
    Len(a) = Len(b) /\ \A k \in 1..Len(a) : SameLetter(a[k], b[k])

\* C6: a graded text is graded correct exactly when, with the blanks around
\* it removed, it equals the card's en_word but for letter case; and any text
\* that differs from it only in letter case or in the blanks around it gets
\* the same grade.
C6_GradeIgnoresCaseAndMargins ==
    last.kind = "graded" =>
        /\ last.is_correct = SameIgnoringCase(Body(last.text), last.correct_answer)
        /\ \A other \in Texts :
              SameIgnoringCase(Body(other), Body(last.text)) =>
                  is_correct(strip(other), last.correct_answer) = last.is_correct

\* ' AppLe ' was graded correct against the card of 'apple'
C6_Witness ==
    /\ last.kind = "graded"
    /\ last.text = <<" ","A","p","p","L","e"," ">>
    /\ last.correct_answer = apple
    /\ last.is_correct

CounterOf(progress, user_id, word_type, word_ref_id, column) ==
    LET rows == {p \in progress : /\ p.user_id = user_id
                                  /\ p.word_type = word_type
                                  /\ p.word_ref_id = word_ref_id}
    IN  IF rows = {} THEN 0 ELSE (CHOOSE p \in rows : TRUE)[column]

IsKey(p, user_id, word_type, word_ref_id) ==
    p.user_id = user_id /\ p.word_type = word_type /\ p.word_ref_id = word_ref_id

\* C7: a call of record_answer leaves exactly one progress row for its key,
\* with the matching counter one higher than before (a missing row counting
\* as zero) and the other counter as before, and changes no other row.
C7_RecordAnswerIncrements ==
    [][\A u \in Users, ok \in BOOLEAN :
       \A wt \in {"common", "user"},
          id \in {w.id : w \in common_words \cup user_words} :
         RecordAnswer(u, wt, id, ok) =>
            /\ Cardinality({p \in user_word_progress' : IsKey(p, u, wt, id)}) = 1
            /\ CounterOf(user_word_progress', u, wt, id, "correct_count")
                 = CounterOf(user_word_progress, u, wt, id, "correct_count")
                     + (IF ok THEN 1 ELSE 0)
            /\ CounterOf(user_word_progress', u, wt, id, "incorrect_count")
                 = CounterOf(user_word_progress, u, wt, id, "incorrect_count")
                     + (IF ok THEN 0 ELSE 1)
            /\ {p \in user_word_progress' : ~IsKey(p, u, wt, id)}
                 = {p \in user_word_progress : ~IsKey(p, u, wt, id)}
            /\ user_words' = user_words
      ]_vars

\* two correct answers to one card of a user, beside a row of the other user
C7_Witness ==
    \E p \in user_word_progress, q \in user_word_progress :
        /\ p.correct_count = 2 /\ p.incorrect_count = 0
        /\ q.user_id # p.user_id

Returned(w) == workers[w].pc = "returned"

Counter(c) == IF c.is_correct THEN "correct_count" ELSE "incorrect_count"

SameKey(c, d) ==
    /\ c.user_id = d.user_id
    /\ c.word_type = d.word_type
    /\ c.word_ref_id = d.word_ref_id

\* C8: when two record_answer calls for one key were in progress at the same
\* time and both have returned True, the committed counters of the key hold
\* both increments.
C8_NoLostUpdate ==
    \A w1 \in Workers, w2 \in Workers :
        LET c == workers[w1]
            d == workers[w2]
        IN  (/\ w1 # w2
             /\ Returned(w1) /\ c.op = "record_answer" /\ c.ret
             /\ Returned(w2) /\ d.op = "record_answer" /\ d.ret
             /\ SameKey(c, d)
             /\ w2 \in c.peers /\ w1 \in d.peers)
            => /\ CounterOf(user_word_progress, c.user_id, c.word_type,
                            c.word_ref_id, "correct_count")
                    >= Cardinality({x \in {w1, w2} : workers[x].is_correct})
               /\ CounterOf(user_word_progress, c.user_id, c.word_type,
                            c.word_ref_id, "incorrect_count")
                    >= Cardinality({x \in {w1, w2} : ~workers[x].is_correct})

\* C9: when a record_answer call has returned True and the calls in progress
\* beside it were all for other users, its increment is in the committed
\* table: the counter it names is not zero.
C9_ReturnedTrueIsCommitted ==
    \A w \in Workers :
        LET c == workers[w]
        IN  (/\ Returned(w) /\ c.op = "record_answer" /\ c.ret
             /\ c.user_id \notin c.peer_users)
            => CounterOf(user_word_progress, c.user_id, c.word_type,
                         c.word_ref_id, Counter(c)) >= 1

\* C10: the handling of a graded text calls record_answer exactly once, with
\* the grade that was shown to the user.
C10_OneRecordPerGradedText ==
    last.kind = "graded" =>
        /\ Len(last.recorded) = 1
        /\ last.recorded = last.shown
        /\ last.recorded[1] = last.is_correct

\* C11: whatever the order or overlap of the answer messages of a user, the
\* calls of record_answer for the user never outnumber the cards shown to the
\* user: a shown card is recorded at most once.
C11_OneRecordPerShownCard ==
    \A src \in Sources : Recorded(src) <= Shown(src)

\* the chat in which a user writes
SrcOf(user_id) == CHOOSE src \in Sources : src[1] = user_id

\* C12: after /cards the data of the user is exactly the answer key of the
\* card that was sent, and holds no card when none could be sent; no other
\* message changes a pending card other than by removing it; and an answer
\* is graded against the pending en_word and recorded under the pending
\* (word_type, word_ref_id).
C12_PendingCardIsShownCard ==
    [][/\ (last'.kind = "cards" /\ handled' # handled) =>
             LET src == SrcOf(last'.user_id)
             IN  IF last'.reply = "question" /\ last'.sent
                 THEN /\ data'[src] = last'.card
                      /\ \E c \in Candidates(last'.user_id) :
                            /\ c.en_word = data'[src].correct_answer
                            /\ c.word_type = data'[src].word_type
                            /\ c.word_ref_id = data'[src].word_ref_id
                 ELSE ~HasCard(data'[src])
       /\ \A src \in Sources :
             (/\ HasCard(data'[src])
              /\ ~(last'.kind = "cards" /\ last'.user_id = src[1]))
             => data'[src] = data[src]
       /\ (last'.kind = "graded" /\ handled' # handled) =>
             LET d == data[SrcOf(last'.user_id)]
             IN  /\ HasCard(d)
                 /\ last'.correct_answer = d.correct_answer
                 /\ last'.word_type = d.word_type
                 /\ last'.word_ref_id = d.word_ref_id
                 /\ last'.is_correct = is_correct(strip(last'.text), d.correct_answer)
                 /\ last'.recorded # <<>> =>
                       user_word_progress' =
                           UpsertProgress(Tables, last'.user_id, d.word_type,
                                          d.word_ref_id, last'.is_correct
                                         ).user_word_progress
      ]_vars

\* a user has answered the card of a word of their own
C12_Witness ==
    /\ last.kind = "graded"
    /\ last.recorded # <<>>
    /\ last.word_type = "user"

\* C13: for a user whose candidate set is empty, get_random_card yields None
\* and nothing else.
C13_EmptyYieldsNone ==
    \A user_id \in Users :
        Candidates(user_id) = {} => get_random_card(Tables, user_id) = {None}

\* the seed was not loaded, one user has added a word and the other has none
C13_Witness ==
    /\ user_words # {}
    /\ \E user_id \in Users :
          Candidates(user_id) = {} /\ get_random_card(Tables, user_id) = {None}

\* C14: when the store failed while /cards was handled for a user who has
\* words, the user is told that the bot is unavailable or to try later, not
\* that the vocabulary is empty; and a user without any word, with the store
\* working, is told that the vocabulary is empty.
C14_FailureIsNotEmptyVocabulary ==
    last.kind = "cards" =>
        /\ (last.fault # "none" /\ Candidates(last.user_id) # {})
              => last.reply \in {"unavailable", "later"}
        /\ (last.fault = "none" /\ Candidates(last.user_id) = {})
              => last.reply = "empty"

\* C15: a call of record_answer is never left by an exception: whatever
\* fails, the connection being closed included, the caller gets a value
\* (False, and then with the counters as they were).
C15_RecordAnswerNeverRaises ==
    \A w \in Workers :
        (Returned(w) /\ workers[w].op = "record_answer") => ~workers[w].raised

\* C17: when no call is in progress, every progress row that an answer has
\* created is still there with counters not below those it had, unless the
\* word it belongs to has been deleted.
C17_ProgressOnlyGrows ==
    (Quiet /\ last.kind = "rows") =>
        \A p \in last.seen :
            \/ \E q \in user_word_progress :
                  /\ IsKey(q, p.user_id, p.word_type, p.word_ref_id)
                  /\ q.correct_count >= p.correct_count
                  /\ q.incorrect_count >= p.incorrect_count
            \/ /\ p.word_type = "user"
               /\ ~\E x \in user_words : x.id = p.word_ref_id

\* C18: when a call of delete_user_word that found the word has returned, no
\* call being in progress and none of the same user having run beside it:
\* after True the word row and its progress row are both gone, after False
\* the word row and the progress row it had are both still there.
C18_DeleteIsAtomic ==
    \A w \in Workers :
        LET c == workers[w]
        IN  (/\ Returned(w) /\ c.op = "delete_user_word"
             /\ c.word_id_to_delete # NULL
             /\ c.user_id \notin c.peer_users
             /\ Quiet)
            =>
            LET word_there == \E x \in user_words : x.id = c.word_id_to_delete
                progress_there ==
                    \E p \in user_word_progress :
                        IsKey(p, c.user_id, "user", c.word_id_to_delete)
                progress_seen ==
                    /\ last.kind = "rows"
                    /\ \E p \in last.seen :
                          IsKey(p, c.user_id, "user", c.word_id_to_delete)
            IN  IF c.ret
                THEN ~word_there /\ ~progress_there
                ELSE word_there /\ (progress_seen => progress_there)

\* C16: for a non-empty candidate set get_random_card yields a card and
\* never None, and its draw leaves no candidate out: every candidate is the
\* word of some card it may return.
C16_AlwaysACard ==
    \A user_id \in Users :
        LET cards == Cards(user_id)
            dealt == {<<card.word_type, card.word_ref_id>> : card \in cards \ {None}}
        IN  Candidates(user_id) # {} =>
                /\ cards # {}
                /\ None \notin cards
                /\ \A c \in Candidates(user_id) :
                      <<c.word_type, c.word_ref_id>> \in dealt

\* a user whose only candidate is one word of their own is dealt its card,
\* with no distractor
C16_Witness ==
    \E user_id \in Users :
        /\ Cardinality(Candidates(user_id)) = 1
        /\ \E card \in Cards(user_id) :
              card # None /\ BagCardinality(card.options) = 1

\* C19: the rows of the query hold every candidate identity exactly once,
\* with the user's counters when the user has a progress row for it and
\* NULL counters otherwise, and hold nothing else.
C19_OneRowPerIdentity ==
    \A user_id \in Users :
        LET rows == words_data_with_progress(Tables, user_id)
            has(c) == \E p \in user_word_progress :
                         IsKey(p, user_id, c.word_type, c.word_ref_id)
        IN  /\ \A c \in Candidates(user_id) :
                  LET mine == {r \in rows : /\ r.word_type = c.word_type
                                            /\ r.word_ref_id = c.word_ref_id}
                  IN  /\ Cardinality(mine) = 1
                      /\ \A r \in mine :
                            /\ r.en_word = c.en_word /\ r.ru_word = c.ru_word
                            /\ r.correct_count =
                                 IF has(c)
                                 THEN CounterOf(user_word_progress, user_id,
                                          c.word_type, c.word_ref_id, "correct_count")
                                 ELSE NULL
                            /\ r.incorrect_count =
                                 IF has(c)
                                 THEN CounterOf(user_word_progress, user_id,
                                          c.word_type, c.word_ref_id, "incorrect_count")
                                 ELSE NULL
            /\ \A r \in rows :
                  \E c \in Candidates(user_id) :
                      r.word_type = c.word_type /\ r.word_ref_id = c.word_ref_id

\* a user owns a word spelled like a common word and has answered the card
\* of their own word only
C19_Witness ==
    \E w \in user_words, c \in common_words :
        /\ w.en_word = c.en_word
        /\ \E p \in user_word_progress : IsKey(p, w.user_id, "user", w.id)
        /\ ~\E p \in user_word_progress : IsKey(p, w.user_id, "common", c.id)

\* the tables with the words, progress and preferences of one user only
OnlyOf(user_id) ==
    [user_words |-> {w \in user_words : w.user_id = user_id},
     user_word_progress |-> {p \in user_word_progress : p.user_id = user_id},
     user_preferences |-> {p \in user_preferences : p.user_id = user_id}]

\* C20: for users A and B, no card of A is a word of B; the rows, and so the
\* weights, of A are those computed from the rows of A alone; and an answer
\* recorded by B leaves the rows of A as they are.
C20_ScopedToOwner ==
    \A A \in Users :
        /\ \A card \in Cards(A) \ {None} :
              card.word_type = "user" =>
                  \E w \in user_words : w.id = card.word_ref_id /\ w.user_id = A
        /\ words_data_with_progress(Tables, A)
              = words_data_with_progress(OnlyOf(A), A)
        /\ \A B \in Users \ {A}, grade \in BOOLEAN, word_type \in {"common", "user"},
               id \in {w.id : w \in common_words \cup user_words} :
              words_data_with_progress(
                  record_answer(Tables, B, word_type, id, grade).t, A)
                = words_data_with_progress(Tables, A)

\* both users own a word, and one has answered a card the other has not
C20_Witness ==
    \E A \in Users, B \in Users :
        /\ A # B
        /\ \E w \in user_words : w.user_id = A
        /\ \E w \in user_words : w.user_id = B
        /\ \E p \in user_word_progress : p.user_id = B
        /\ ~\E p \in user_word_progress : p.user_id = A

\* C21: get_user_input_mode yields 'buttons' or 'keyboard' for every user:
\* 'buttons' when no call of set_user_input_mode for the user has returned
\* True and when its query raised, else the mode of the last such call; and
\* a call of set_user_input_mode with another value returns False and
\* leaves the preferences as they were.
C21_InputMode ==
    /\ \A u \in Users :
          /\ get_user_input_mode(Tables, u) \in {"buttons", "keyboard"}
          /\ get_user_input_mode(Tables, u) =
                IF LastSet[u] = "none" THEN "buttons" ELSE LastSet[u]
    /\ last.kind = "mode" =>
          /\ last.op = "get" =>
                /\ last.got \in {"buttons", "keyboard"}
                /\ last.raises => last.got = "buttons"
                /\ ~last.raises =>
                      last.got = IF LastSet[last.user_id] = "none" THEN "buttons"
                                 ELSE LastSet[last.user_id]
          /\ (last.op # "get" /\ last.mode \notin {"buttons", "keyboard"}) =>
                /\ ~last.ret
                /\ user_preferences = last.before

\* one user has chosen 'keyboard', the other has chosen nothing, and the
\* last call was set_user_input_mode with a value that is no mode
C21_Witness ==
    /\ last.kind = "mode" /\ last.op = "set" /\ last.mode = "voice"
    /\ \E u \in Users, v \in Users :
          /\ last.set[u] = "keyboard" /\ last.set[v] = "none"
          /\ get_user_input_mode(Tables, u) = "keyboard"

\* C22: a message handled while the connection is closed changes no table
\* and no conversation data, and is answered with the notice that the bot is
\* unavailable, which is sent before count_total_words, get_random_card or
\* any other store method is reached.
C22_UnavailableDoesNothing ==
    [][(txn.status = "closed" /\ handled' # handled) =>
          /\ UNCHANGED <<dbvars, data>>
          /\ \/ last'.kind = "unavailable"
             \/ last'.kind = "cards" /\ last'.reply = "unavailable"]_vars

\* a text was handled while the connection was closed, with a card pending
\* in one chat and a step of /add_word or /delete_word pending in the other
C22_Witness ==
    /\ txn.status = "closed"
    /\ last.kind = "unavailable"
    /\ \E src \in Sources : HasCard(data[src])
    /\ \E src \in Sources :
          data[src] # None /\ "next_step" \in DOMAIN data[src]

\* C23: whatever answers have been recorded, every candidate of a user is
\* the word of some card the next call of get_random_card may return.
C23_NoWordExcluded ==
    \A u \in Users :
        LET dealt == {<<card.word_type, card.word_ref_id>> :
                         card \in Cards(u) \ {None}}
        IN  \A c \in Candidates(u) : <<c.word_type, c.word_ref_id>> \in dealt

\* a word answered correctly nine times in a row, and a word answered
\* wrongly once and correctly eight times, beside words never answered: each
\* is still the word of a card
C23_Witness ==
    /\ \E u \in Users :
          /\ \E p \in user_word_progress :
                p.user_id = u /\ p.correct_count = MaxCount /\ p.incorrect_count = 0
                /\ \E card \in Cards(u) \ {None} :
                      card.word_type = p.word_type /\ card.word_ref_id = p.word_ref_id
    /\ \E u \in Users :
          /\ \E p \in user_word_progress :
                p.user_id = u /\ p.correct_count = MaxCount - 1 /\ p.incorrect_count = 1
                /\ \E card \in Cards(u) \ {None} :
                      card.word_type = p.word_type /\ card.word_ref_id = p.word_ref_id

\* the weight get_random_card computes for a word of a user on the tables t
WeightIn(t, user_id, word_type, word_ref_id) ==
    LET row == CHOOSE r \in words_data_with_progress(t, user_id) :
                   r.word_type = word_type /\ r.word_ref_id = word_ref_id
    IN  final_weight(row.correct_count, row.incorrect_count)

\* C24: for every candidate row of a user, with counters (correct,
\* incorrect): the weight is at least 1; the weight at correct + 1 is not
\* above it, and neither is the weight of the word once a correct answer
\* has been recorded; and when incorrect >= 1 the weight at incorrect + 1
\* is not below it, and neither is the weight of the word once an incorrect
\* answer has been recorded.
C24_WeightMonotone ==
    \A u \in Users :
        \A row \in words_data_with_progress(Tables, u) :
            LET correct == CountOf(row.correct_count)
                incorrect == CountOf(row.incorrect_count)
                weight == final_weight(row.correct_count, row.incorrect_count)
                answered(grade) ==
                    WeightIn(record_answer(Tables, u, row.word_type,
                                           row.word_ref_id, grade).t,
                             u, row.word_type, row.word_ref_id)
            IN  /\ weight >= 1
                /\ final_weight(correct + 1, incorrect) <= weight
                /\ answered(TRUE) <= weight
                /\ incorrect >= 1 =>
                      /\ final_weight(correct, incorrect + 1) >= weight
                      /\ answered(FALSE) >= weight

\* rows at which the weight falls with a correct answer (8 to 7), stays at
\* the floor (1 to 1) and rises with a mistake (8 to 10)
C24_Witness ==
    /\ \E u \in Users :
          \E r \in words_data_with_progress(Tables, u) :
              /\ r.correct_count = 1 /\ r.incorrect_count = 2
              /\ final_weight(2, 2) = 7 /\ final_weight(1, 3) = 10
    /\ \E u \in Users :
          \E r \in words_data_with_progress(Tables, u) :
              /\ r.correct_count = 6 /\ r.incorrect_count = 1
              /\ final_weight(7, 1) = 1

\* C25: over the candidate rows of all users, the weight of a row never
\* answered is at least the weight of every row with a mistake, and the
\* weight of a row with a mistake is at least the weight of every row with
\* correct answers only.
C25_PriorityOrder ==
    \A u \in Users, v \in Users :
        \A r \in words_data_with_progress(Tables, u),
           s \in words_data_with_progress(Tables, v) :
            LET weight(x) == final_weight(x.correct_count, x.incorrect_count)
                new(x) == CountOf(x.correct_count) = 0 /\ CountOf(x.incorrect_count) = 0
                mistaken(x) == CountOf(x.incorrect_count) >= 1
                mastered(x) == /\ CountOf(x.incorrect_count) = 0
                               /\ CountOf(x.correct_count) >= 1
            IN  /\ (new(r) /\ mistaken(s)) => weight(r) >= weight(s)
                /\ (mistaken(r) /\ mastered(s)) => weight(r) >= weight(s)

\* C26: over the candidate rows of all users, a row never answered weighs
\* 10, a row with correct answers only weighs at most 4, and so the first
\* weighs strictly more than the second.
C26_NewAboveMastered ==
    \A u \in Users, v \in Users :
        \A r \in words_data_with_progress(Tables, u),
           s \in words_data_with_progress(Tables, v) :
            LET weight(x) == final_weight(x.correct_count, x.incorrect_count)
            IN  (/\ CountOf(r.correct_count) = 0 /\ CountOf(r.incorrect_count) = 0
                 /\ CountOf(s.correct_count) >= 1 /\ CountOf(s.incorrect_count) = 0)
                =>
                /\ weight(r) = 10
                /\ weight(s) <= 4
                /\ weight(r) > weight(s)

\* a row never answered beside a row answered correctly once (weight 4)
\* and a row answered correctly MaxCount times (weight 1)
C26_Witness ==
    \E u \in Users, v \in Users :
        LET rows == words_data_with_progress(Tables, u)
        IN  /\ \E r \in rows : r.correct_count = NULL
            /\ \E s \in rows :
                  /\ s.correct_count = 1 /\ s.incorrect_count = 0
                  /\ final_weight(s.correct_count, s.incorrect_count) = 4
            /\ \E s \in words_data_with_progress(Tables, v) :
                  /\ s.correct_count = MaxCount /\ s.incorrect_count = 0
                  /\ final_weight(s.correct_count, s.incorrect_count) = 1

\* C27: for every user with candidates, of the total = sum of the weights
\* equally likely outcomes of the draw exactly weight_i select candidate i,
\* so that candidate i is drawn with probability weight_i / total; and the
\* candidates so drawn are those get_random_card makes its cards of.
C27_DrawnByWeight ==
    \A u \in Users :
        LET rows == words_data_with_progress(Tables, u)
            population == fetchall(rows)
            weights == [i \in 1..Len(population) |->
                           final_weight(population[i].correct_count,
                                        population[i].incorrect_count)]
            total == accumulate(weights, Len(population))
            drawn(ticket) == choices(population, weights, ticket)
        IN  rows # {} =>
                /\ \A i \in 1..Len(population) :
                      Cardinality({ticket \in 0..(total - 1) :
                                      drawn(ticket) = population[i]}) = weights[i]
                /\ {word_info(drawn(ticket)) : ticket \in 0..(total - 1)}
                      = selected_word_info(rows)

\* a word answered correctly three times (weight 2) beside a word never
\* answered (weight 10)
C27_Witness ==
    \E u \in Users :
        LET rows == words_data_with_progress(Tables, u)
        IN  /\ \E r \in rows :
                  /\ r.correct_count = 3 /\ r.incorrect_count = 0
                  /\ final_weight(r.correct_count, r.incorrect_count) = 2
            /\ \E r \in rows :
                  /\ r.correct_count = NULL
                  /\ final_weight(r.correct_count, r.incorrect_count) = 10

\* C28: no user has two words whose English texts are equal once
\* lower-cased; and the last call of add_user_word returned True exactly
\* when it added a row, which it did exactly when the user had no word with
\* that text lower-cased (whoever else has one); otherwise it returned
\* False and left user_words as it was.
C28_UniqueIgnoringCase ==
    /\ \A w1 \in user_words, w2 \in user_words :
          (w1.user_id = w2.user_id /\ lower(w1.en_word) = lower(w2.en_word))
              => w1 = w2
    /\ last.kind = "added" =>
          LET had == \E w \in last.before :
                        /\ w.user_id = last.user_id
                        /\ lower(w.en_word) = lower(last.en_word)
              new == user_words \ last.before
          IN  /\ last.ret <=> new # {}
              /\ last.ret <=> ~had
              /\ last.before \subseteq user_words
              /\ \A w \in new : /\ w.user_id = last.user_id
                                 /\ w.en_word = lower(last.en_word)
              /\ Cardinality(new) <= 1

\* both users own 'ox', and the last call, adding 'OX' for one of them,
\* returned False
C28_Witness ==
    /\ last.kind = "added" /\ last.en_word = <<"O","X">> /\ ~last.ret
    /\ \A u \in Users : \E w \in user_words : w.user_id = u /\ w.en_word = ox

\* C29: every progress row refers to a word that exists: a common word, or
\* a word of the user of the row.
C29_ProgressRefersToWord ==
    \A p \in user_word_progress :
        IF p.word_type = "common"
        THEN \E c \in common_words : c.id = p.word_ref_id
        ELSE \E w \in user_words : w.id = p.word_ref_id /\ w.user_id = p.user_id

\* what is pending in the data d of a user and chat
PendingCard(d) ==
    d # None /\ DOMAIN d \cap {"correct_answer", "word_type", "word_ref_id"} # {}

PendingStep(d, step) ==
    d # None /\ "next_step" \in DOMAIN d /\ d.next_step = step

\* C30: after every step, in the data of every user and chat at most one
\* of a card, an add-word step and a delete-word step is pending, and the
\* three fields of a card are there together or not at all; after /add_word
\* or /delete_word (or their buttons) the data holds that step and nothing
\* else, and after /cards it holds no step and no card but the one shown.
C30_OnePending ==
    [][\A src \in Chats :
          LET d == data'[src]
          IN  /\ d # None =>
                    /\ DOMAIN d \in {{}, {"next_step"},
                                     {"correct_answer", "word_type", "word_ref_id"}}
                    /\ "next_step" \in DOMAIN d =>
                          d.next_step \in {"add_word", "delete_word"}
              /\ ~(PendingCard(d) /\ PendingStep(d, "add_word"))
              /\ ~(PendingCard(d) /\ PendingStep(d, "delete_word"))
              /\ start_adding_word_process(src) => d = [next_step |-> "add_word"]
              /\ start_deleting_word_process(src) =>
                    d = [next_step |-> "delete_word"]
              /\ (/\ handled' # handled /\ last'.kind = "cards"
                  /\ last'.reply # "unavailable" /\ src = SrcOf(last'.user_id)) =>
                    d \in {EmptyDict, last'.card}]_vars

\* after three messages or more, a card is pending in one chat and a step
\* of /add_word in the other
C30_Witness ==
    /\ handled >= 3
    /\ \E src \in Sources : PendingCard(data[src])
    /\ \E src \in Sources : PendingStep(data[src], "add_word")


\* how many answers of the bag are the user's with the given grade
Graded(answers, user_id, grade) ==
    BagCardinality([a \in {x \in DOMAIN answers :
                             x.user_id = user_id /\ x.is_correct = grade}
                       |-> answers[a]])

\* the words the user's answers of the bag are for
Practiced(answers, user_id) ==
    {<<a.word_type, a.word_ref_id>> :
        a \in {x \in DOMAIN answers : x.user_id = user_id}}

\* C31: after any run of record_answer and delete_user_word calls,
\* get_user_stats of a user gives as total_correct and total_incorrect the
\* numbers of the user's recorded correct and incorrect answers for words not
\* deleted since, and as words_practiced the number of distinct such words.
C31_StatsCountAnswers ==
    last.kind = "ledger" =>
        \A user_id \in Users :
            LET stats == get_user_stats(Tables, user_id)
            IN  /\ stats.total_correct = Graded(last.answers, user_id, TRUE)
                /\ stats.total_incorrect = Graded(last.answers, user_id, FALSE)
                /\ stats.words_practiced
                       = Cardinality(Practiced(last.answers, user_id))

\* a deletion has taken an answer out of the count, and a user with no word
\* of their own has an answer that is still counted
C31_Witness ==
    /\ last.kind = "ledger"
    /\ last.dropped >= 1
    /\ \E user_id \in Users :
           LET stats == get_user_stats(Tables, user_id)
           IN  /\ \A w \in user_words : w.user_id # user_id
               /\ stats.total_correct + stats.total_incorrect >= 1
               /\ stats.words_practiced = 1


\* the rows of user_words the deletion of last is aimed at
Target ==
    {w \in last.before.user_words :
        w.user_id = last.user_id /\ w.en_word = lower(last.en_word)}

\* the progress rows the deletion of last is aimed at
TargetProgress ==
    {p \in last.before.user_word_progress :
        /\ p.user_id = last.user_id
        /\ p.word_type = "user"
        /\ \E w \in Target : w.id = p.word_ref_id}

\* C32: delete_user_word(user, en_word) changes nothing outside its target:
\* when the user has no such word it returns False and leaves every table as
\* it was; when it succeeds it removes only that user's word and that user's
\* progress for it, never a common word, another user's word with the same
\* English text, or any other progress row.
C32_DeleteTouchesOnlyTarget ==
    (last.kind = "ledger" /\ last.op = "delete") =>
        /\ common_words = last.common
        /\ user_preferences = last.before.user_preferences
        /\ IF Target = {}
           THEN /\ last.ret = FALSE
                /\ Tables = last.before
           ELSE /\ last.ret = TRUE
                /\ user_words = last.before.user_words \ Target
                /\ user_word_progress
                       = last.before.user_word_progress \ TargetProgress

\* a user deleted their word and the progress for it, while the other user
\* has a word with the same text and progress for it, and the user has
\* progress for the common word with the same id
C32_Witness ==
    /\ last.kind = "ledger" /\ last.op = "delete" /\ last.ret = TRUE
    /\ TargetProgress # {}
    /\ \E w \in user_words :
           /\ w.user_id # last.user_id
           /\ w.en_word = lower(last.en_word)
    /\ \E p \in user_word_progress, w \in Target :
           /\ p.user_id = last.user_id
           /\ p.word_type = "common"
           /\ p.word_ref_id = w.id


\* C33: a pending add-word or delete-word step is consumed by exactly one
\* message: the texts of a chat taken as the word to add or delete never
\* outnumber the steps started in the chat, so that a further text is
\* neither added nor deleted until a new command.
C33_StepTakenOnce ==
    \A src \in Sources : Taken(src) <= Started(src)

====
